---------------------------- MODULE Spec2Model ----------------------------
(***************************************************************************)
(* L.I.N.N.Y voice assistant (src/linny_app.py).                           *)
(*                                                                         *)
(* Spec      : the threads of the running assistant -- the coordinator     *)
(*             loop (_listen_loop), the dispatch threads (execute_command),*)
(*             the speech workers (VoiceEngine.speak._thread), the timer   *)
(*             threads, the startup greeting and the global hotkey         *)
(*             (VoiceEngine.stop followed by toggle_mute).  One step of a  *)
(*             thread is one read or one write of a shared attribute, as   *)
(*             the interpreter interleaves them.  Threads of one kind are  *)
(*             kept as a bag of thread states: a thread that ends leaves   *)
(*             the bag, so behaviours are unbounded in length and only the *)
(*             number of threads alive at once is bounded.                 *)
(* SpecBrain : BrainManager.ask, the cascading inference router, one step  *)
(*             per backend call.                                           *)
(* SpecDispatch : one execute_command call at a time, on real sentences,   *)
(*             with the speech workers and timers it starts.               *)
(* SpecLoop  : start_listening and stop_listening called at any time, the  *)
(*             _listen_loop threads they start, every outcome of a capture *)
(*             and of the two recognition attempts.                        *)
(* SpecFair  : the loop thread, scheduled fairly, with the threads that    *)
(*             set the two flags it waits on.                              *)
(* SpecMute  : toggle_mute called by the four threads that reach it.       *)
(* SpecUser  : the user's mute requests and the launches, which mute and   *)
(*             unmute on their own.                                        *)
(* SpecSave  : _save_settings while ask() calls are in flight.             *)
(* SpecVoice : the execute_command threads, the speech workers and the     *)
(*             hotkey handler, scheduled fairly.                           *)
(* SpecStop  : the listening threads, scheduled fairly, with the Mute      *)
(*             button, stop_listening and an audio stream that can die.    *)
(***************************************************************************)
EXTENDS Integers, Sequences, FiniteSets, Bags, TLC

(***************************************************************************)
(* Bounds of the model.                                                    *)
(***************************************************************************)
\* threads alive at once, besides the loop, the hotkey handler and the
\* greeting: speech workers, execute_command threads and sleeping timers
MaxThreads == 2

VARIABLES
    \* ---- VoiceEngine
    is_speaking,    \* VoiceEngine.is_speaking
    interrupt,      \* VoiceEngine._interrupt
    workers,        \* bag of the speech worker threads alive
    \* ---- LinnyAssistant
    is_muted,       \* LinnyAssistant.is_muted
    is_listening,   \* LinnyAssistant.is_listening
    lpc,            \* position of the _listen_loop thread
    seenSpeaking,   \* the value of voice.is_speaking the loop's test read
    seenMuted,      \* the value of is_muted the loop's test read
    dispatches,     \* bag of the execute_command threads alive
    timers,         \* timer threads sleeping (_start_timer.timer)
    greeted,        \* startup greeting: "init" | "pending" | "done"
    \* ---- LinnyApp._hotkey_interrupt
    hpc,            \* position of the hotkey handler thread
    hread,          \* the value of is_muted toggle_mute read
    \* ---- observers (written by no code; they record what happened)
    stopClean,      \* a stop() has returned and no speak() was issued since
    hIdle,          \* the latest stop() began with no speech in flight, none issued since
    hEscaped,       \* an exception left stop()
    hRow,           \* idle stop() calls in a row (1, or 2 for more) and the
                    \* <<is_speaking, _interrupt>> the first of them left
    hSame,          \* the latest of them left what the first left
    \* ---- BrainManager
    cfgP,           \* config has a perplexity_api_key
    groq_client,    \* BrainManager.groq_client is set
    gemini_model,   \* BrainManager.gemini_model is set
    query,          \* the query of the ask() in progress
    is_search,      \* ask()'s local is_search
    apc,            \* position of ask()
    calls,          \* the backend calls ask() made, with their outcomes
    result,         \* what ask() returned
    raised,         \* an exception left ask()
    language,       \* the language argument of the ask() in progress
    \* ---- one execute_command(text) call, followed step by step
    text,           \* its argument
    rule,           \* the rule of execute_command that took the text
    cpc,            \* position of the call
    trace,          \* what the call did: <<kind, what, ok>> events in order
    scheduled,      \* threading.Timer tasks started and not yet run
    \* ---- the _listen_loop threads, over start_listening / stop_listening
    loops,          \* bag of the _listen_loop threads alive
    stream,         \* the audio stream of self.microphone: "open" | "dead"
    \* ---- toggle_mute called from several threads
    tog,            \* per calling thread: its position in toggle_mute
    flips,          \* observer: an odd number of toggle_mute calls were made
    userMuted,      \* observer: the latest toggle_mute call to return muted
    \* ---- LinnyApp._save_settings
    brain,          \* the BrainManager that assistant.brain refers to
    spc             \* position of _save_settings

voiceVars == <<is_speaking, interrupt, workers>>
asstVars  == <<is_muted, is_listening, lpc, seenSpeaking, seenMuted,
               dispatches, timers, greeted>>
hotVars   == <<hpc, hread>>
obsVars   == <<stopClean, hIdle, hEscaped, hRow, hSame>>
brainVars == <<cfgP, groq_client, gemini_model, query, is_search, apc,
               calls, result, raised, language>>
cmdVars   == <<text, rule, cpc, trace, scheduled>>
loopVars  == <<loops, stream>>
muteVars  == <<tog, flips, userMuted>>
saveVars  == <<brain, spc>>
sideVars  == <<loopVars, muteVars, saveVars>>
vars == <<voiceVars, asstVars, hotVars, obsVars, brainVars, cmdVars, sideVars>>

BagAdd(B, e) == B (+) SetToBag({e})
BagRemove(B, e) == B (-) SetToBag({e})
BagReplace(B, e, f) == BagAdd(BagRemove(B, e), f)

\* the threads the bound counts: all but one loop thread
Alive ==
    BagCardinality(workers) + BagCardinality(dispatches) + timers
      + (IF loops = EmptyBag THEN 0 ELSE BagCardinality(loops) - 1)

\* the bound of the model, on the state a step that starts a thread leads to
WithinBound == Alive' <= MaxThreads

(***************************************************************************)
(* VoiceEngine                                                             *)
(***************************************************************************)

\* VoiceEngine.__init__ (lines 547-549): is_speaking = False, _interrupt = False
InitVoice ==
    /\ is_speaking = FALSE
    /\ interrupt = FALSE
    /\ workers = EmptyBag

\* A speech worker: pc its position in _thread, cb the callback speak() was
\* given ("none" | "unmute"); and two observers: cleared (a stop() turned
\* is_speaking from true to false while this call was in flight) and cut
\* (engine.stop() ended its playback).
NewWorker(cb) == [pc |-> "start", cb |-> cb, cleared |-> FALSE, cut |-> FALSE]

\* a worker that has set is_speaking and has not yet run its finally
InFlight(r) == r.pc \in {"play", "fin"}

\* between engine.say and the end of runAndWait: audio is being produced
Playing(r) == r.pc = "play"

\* VoiceEngine.speak(text, callback), line 615: start a thread on _thread
SpeakCall(cb) ==
    /\ workers' = BagAdd(workers, NewWorker(cb))
    /\ stopClean' = FALSE
    /\ hIdle' = FALSE
    /\ hRow' = <<>>
    /\ UNCHANGED <<is_speaking, interrupt, hEscaped, hSame>>

\* _thread, lines 598-603: self._interrupt = False; self.is_speaking = True;
\* engine.say(text) and the start of runAndWait(): audio begins, or one of
\* the two raises (to the except of line 605).  _interrupt is read by no
\* code and the engine is touched by no other step before audio begins, so
\* the two writes and the calls are one step.
WorkerBeginOf(r) ==
    /\ r.pc = "start"
    /\ \E ok \in BOOLEAN :
         workers' = BagReplace(workers, r,
                        [r EXCEPT !.pc = IF ok THEN "play" ELSE "fin"])
    /\ interrupt' = FALSE
    /\ is_speaking' = TRUE
    /\ UNCHANGED <<asstVars, hotVars, obsVars, brainVars, cmdVars, sideVars>>

WorkerBegin == \E r \in BagToSet(workers) : WorkerBeginOf(r)

\* _thread, line 603: runAndWait() returns (playback complete) or raises.
WorkerPlayEnd ==
    /\ \E r \in BagToSet(workers) :
         /\ r.pc = "play"
         /\ workers' = BagReplace(workers, r, [r EXCEPT !.pc = "fin"])
    /\ UNCHANGED <<is_speaking, interrupt>>
    /\ UNCHANGED <<asstVars, hotVars, obsVars, brainVars, cmdVars, sideVars>>

\* _thread with the callback called before is_speaking is cleared, and the
\* clearing left out after it
WorkerFinallyCallbackFirst(r) ==
    /\ r.pc = "fin"
    /\ workers' = IF r.cb = "none"
                  THEN BagRemove(workers, r)
                  ELSE BagReplace(workers, r,
                           [r EXCEPT !.pc = "cb", !.cleared = FALSE])
    /\ is_speaking' = IF r.cb = "none" THEN FALSE ELSE is_speaking
    /\ UNCHANGED interrupt
    /\ UNCHANGED <<asstVars, hotVars, obsVars, brainVars, cmdVars, sideVars>>

\* _thread, lines 607-609: finally: self.is_speaking = False; without a
\* callback the thread ends.
WorkerFinallyOf(r) ==
    /\ r.pc = "fin"
    /\ workers' = IF r.cb = "none"
                  THEN BagRemove(workers, r)
                  ELSE BagReplace(workers, r,
                           [r EXCEPT !.pc = "cb", !.cleared = FALSE])
    /\ is_speaking' = FALSE
    /\ UNCHANGED interrupt
    /\ UNCHANGED <<asstVars, hotVars, obsVars, brainVars, cmdVars, sideVars>>

WorkerFinally == \E r \in BagToSet(workers) : WorkerFinallyOf(r)

\* _thread, lines 609-613: callback(); the only callback the program passes is
\* _launch_app._post_launch_unmute (lines 785-788): sleep(2); is_muted = False
WorkerCallbackOf(r) ==
    /\ r.pc = "cb"
    /\ workers' = BagRemove(workers, r)
    /\ is_muted' = FALSE
    /\ UNCHANGED <<is_speaking, interrupt>>
    /\ UNCHANGED <<is_listening, lpc, seenSpeaking, seenMuted,
                   dispatches, timers, greeted>>
    /\ UNCHANGED <<hotVars, obsVars, brainVars, cmdVars, sideVars>>

WorkerCallback == \E r \in BagToSet(workers) : WorkerCallbackOf(r)

(***************************************************************************)
(* LinnyApp._hotkey_interrupt: VoiceEngine.stop(), then _toggle_mute()     *)
(***************************************************************************)

InitHotkey ==
    /\ hpc = "idle"
    /\ hread = FALSE

\* the keyboard hook calls _hotkey_interrupt (lines 1558-1566), which calls
\* VoiceEngine.stop(); stop, line 580: self._interrupt = True
HotkeyPress ==
    /\ hpc = "idle"
    /\ interrupt' = TRUE
    /\ hpc' = "stop_eng"
    /\ hIdle' = (workers = EmptyBag)
    /\ hRow' = IF hIdle' THEN hRow ELSE <<>>
    /\ UNCHANGED <<is_speaking, workers, hread, stopClean, hEscaped, hSame>>
    /\ UNCHANGED <<asstVars, brainVars, cmdVars, sideVars>>

\* engine.stop() ends the runAndWait() of the workers that are playing
CutWorker(r) == IF r.pc = "play" THEN [r EXCEPT !.pc = "fin", !.cut = TRUE] ELSE r

\* lines 581-584 without the try: the exception of engine.stop() leaves stop()
StopEngineNoCatch ==
    /\ hpc = "stop_eng"
    /\ \E ok \in BOOLEAN :
         IF ok
         THEN /\ workers' = BagOfAll(CutWorker, workers)
              /\ hpc' = "stop_fin"
              /\ hEscaped' = hEscaped
         ELSE /\ hpc' = "idle"
              /\ hEscaped' = TRUE
              /\ UNCHANGED workers
    /\ UNCHANGED <<is_speaking, interrupt, hread>>
    /\ UNCHANGED <<stopClean, hIdle, hRow, hSame>>
    /\ UNCHANGED <<asstVars, brainVars, cmdVars, sideVars>>

\* stop, lines 581-584: engine.stop(); if it raises, the except of line 583
\* logs the error and stop() goes on to its finally.
StopEngine ==
    /\ hpc = "stop_eng"
    /\ \E ok \in BOOLEAN :
         workers' = IF ok THEN BagOfAll(CutWorker, workers) ELSE workers
    /\ hpc' = "stop_fin"
    /\ UNCHANGED <<is_speaking, interrupt, hread>>
    /\ UNCHANGED <<asstVars, obsVars, brainVars, cmdVars, sideVars>>

\* the observer: stop() clearing a true is_speaking makes the true->false
\* transition of the calls in flight
MarkCleared(r) == IF InFlight(r) THEN [r EXCEPT !.cleared = TRUE] ELSE r

\* stop, lines 585-586: finally: self.is_speaking = False; stop() returns
StopClear ==
    /\ hpc = "stop_fin"
    /\ is_speaking' = FALSE
    /\ hpc' = "tog_read"
    /\ stopClean' = TRUE
    /\ workers' = IF is_speaking THEN BagOfAll(MarkCleared, workers) ELSE workers
    /\ UNCHANGED <<interrupt, hread>>
    /\ hRow' = IF ~hIdle THEN <<>>
               ELSE IF hRow = <<>> THEN <<1, <<is_speaking', interrupt>>>>
               ELSE <<2, hRow[2]>>
    /\ hSame' = IF hIdle /\ hRow # <<>>
                THEN hRow[2] = <<is_speaking', interrupt>>
                ELSE hSame
    /\ UNCHANGED <<hIdle, hEscaped>>
    /\ UNCHANGED <<asstVars, brainVars, cmdVars, sideVars>>

\* _toggle_mute (line 1534) -> toggle_mute, line 1281: the read of is_muted
ToggleRead ==
    /\ hpc = "tog_read"
    /\ hread' = is_muted
    /\ hpc' = "tog_write"
    /\ UNCHANGED <<voiceVars, asstVars, obsVars, brainVars, cmdVars, sideVars>>

\* toggle_mute with a mute that also marks the speech as over
ToggleWriteSilences ==
    /\ hpc = "tog_write"
    /\ is_muted' = ~hread
    /\ is_speaking' = (is_speaking /\ hread)
    /\ hpc' = "idle"
    /\ hread' = FALSE
    /\ UNCHANGED <<is_listening, lpc, seenSpeaking, seenMuted,
                   dispatches, timers, greeted>>
    /\ UNCHANGED <<interrupt, workers>>
    /\ UNCHANGED <<obsVars, brainVars, cmdVars, sideVars>>

\* toggle_mute, line 1281: the write self.is_muted = not <the value read>
ToggleWrite ==
    /\ hpc = "tog_write"
    /\ is_muted' = ~hread
    /\ hpc' = "idle"
    /\ hread' = FALSE
    /\ UNCHANGED <<is_listening, lpc, seenSpeaking, seenMuted,
                   dispatches, timers, greeted>>
    /\ UNCHANGED <<voiceVars, obsVars, brainVars, cmdVars, sideVars>>

(***************************************************************************)
(* LinnyAssistant: start_listening, _listen_loop                           *)
(***************************************************************************)

\* the categories of execute_command the threads of Spec run: one that
\* speaks a phrase, the application launch, the timer
Kinds == {"simple", "launch", "timer"}

\* LinnyAssistant.__init__ (lines 683-684), before startup_sequence
InitAssistant ==
    /\ is_muted = FALSE
    /\ is_listening = FALSE
    /\ lpc = "none"
    /\ seenSpeaking = FALSE
    /\ seenMuted = FALSE
    /\ dispatches = EmptyBag
    /\ timers = 0
    /\ greeted = "init"

\* start_listening (lines 1217-1267): nothing if already listening; the audio
\* source opens within 3 attempts (is_listening = True, the loop thread
\* starts) or all 3 fail (the failure message is spoken, no thread).  The
\* first call is startup_sequence's (line 1613), which then launches the
\* greeting thread (line 1669).
StartListening ==
    /\ ~is_listening
    /\ lpc = "none"
    /\ greeted' = IF greeted = "init" THEN "pending" ELSE greeted
    /\ \E ok \in BOOLEAN :
         IF ok
         THEN /\ is_listening' = TRUE
              /\ lpc' = "outer"
              /\ UNCHANGED <<voiceVars, obsVars>>
         ELSE /\ SpeakCall("none")
              /\ UNCHANGED <<is_listening, lpc>>
    /\ UNCHANGED <<is_muted, seenSpeaking, seenMuted, dispatches, timers>>
    /\ UNCHANGED <<hotVars, brainVars, cmdVars, sideVars>>
    /\ WithinBound

\* startup_sequence._async_greeting (lines 1618-1666): speak(full_greeting)
Greeting ==
    /\ greeted = "pending"
    /\ greeted' = "done"
    /\ SpeakCall("none")
    /\ UNCHANGED <<is_muted, is_listening, lpc, seenSpeaking, seenMuted,
                   dispatches, timers>>
    /\ UNCHANGED <<hotVars, brainVars, cmdVars, sideVars>>
    /\ WithinBound

\* what a loop step leaves alone besides its own position and locals
LoopFrame ==
    /\ UNCHANGED <<is_muted, is_listening, dispatches, timers, greeted>>
    /\ UNCHANGED <<voiceVars, hotVars, obsVars, brainVars, cmdVars, sideVars>>

\* _listen_loop, line 1135: while self.is_listening
LoopOuter ==
    /\ lpc = "outer"
    /\ lpc' = IF is_listening THEN "chk_s" ELSE "exited"
    /\ UNCHANGED <<seenSpeaking, seenMuted>>
    /\ LoopFrame

\* line 1138 with the flag read once: a loop that found the assistant
\* speaking goes on waiting on the value it read
LoopCheckSpeakingLatched ==
    /\ lpc = "chk_s"
    /\ seenSpeaking' = (seenSpeaking \/ is_speaking)
    /\ lpc' = IF seenSpeaking' THEN "chk_s" ELSE "chk_m"
    /\ UNCHANGED seenMuted
    /\ LoopFrame

\* line 1138: the read of self.voice.is_speaking in the suspension test;
\* true: sleep(0.1) and test again
LoopCheckSpeaking ==
    /\ lpc = "chk_s"
    /\ seenSpeaking' = is_speaking
    /\ lpc' = IF is_speaking THEN "chk_s" ELSE "chk_m"
    /\ UNCHANGED seenMuted
    /\ LoopFrame

\* line 1138: the read of self.is_muted in the suspension test (reached when
\* is_speaking was read false); true: sleep(0.1) and test again
LoopCheckMuted ==
    /\ lpc = "chk_m"
    /\ seenMuted' = is_muted
    /\ lpc' = IF is_muted THEN "chk_s" ELSE "pre"
    /\ UNCHANGED seenSpeaking
    /\ LoopFrame

\* lines 1141-1157: cycle count, gc, the source test, and the call of
\* recognizer.listen: the capture begins
LoopStartCapture ==
    /\ lpc = "pre"
    /\ lpc' = "capturing"
    /\ UNCHANGED <<seenSpeaking, seenMuted>>
    /\ LoopFrame

\* line 1157: recognizer.listen returns audio, or raises WaitTimeoutError or
\* another exception (lines 1166-1182: continue)
LoopCaptureEnd ==
    /\ lpc = "capturing"
    /\ \E got \in BOOLEAN : lpc' = IF got THEN "post_s" ELSE "outer"
    /\ seenSpeaking' = FALSE
    /\ seenMuted' = FALSE
    /\ LoopFrame

\* line 1160: the read of self.voice.is_speaking; true: discard, continue
LoopPostSpeaking ==
    /\ lpc = "post_s"
    /\ lpc' = IF is_speaking THEN "outer" ELSE "post_m"
    /\ UNCHANGED <<seenSpeaking, seenMuted>>
    /\ LoopFrame

\* line 1160: the read of self.is_muted; true: discard, continue
LoopPostMuted ==
    /\ lpc = "post_m"
    /\ lpc' = IF is_muted THEN "outer" ELSE "recog"
    /\ UNCHANGED <<seenSpeaking, seenMuted>>
    /\ LoopFrame

\* the thread of line 1189 / 1195: execute_command(text) on its own thread
SpawnDispatch(k) ==
    /\ dispatches' = BagAdd(dispatches, [kind |-> k, pc |-> "begin"])

\* lines 1185-1206: recognize_google(audio, 'en-US') gives a text (dispatch
\* it), or raises RequestError / another exception (continue), or raises
\* UnknownValueError, and then, inside that handler (lines 1191-1199),
\* recognize_google(audio, 'fil-PH') gives a text (dispatch it), or raises
\* UnknownValueError (continue), or raises any other exception, which only
\* the outermost handler of lines 1208-1215 catches: it speaks the glitch
\* apology and continues.  The calls touch nothing shared: one step.
LoopRecognize ==
    /\ lpc = "recog"
    /\ lpc' = "outer"
    /\ UNCHANGED <<seenSpeaking, seenMuted>>
    /\ \/ /\ \E k \in Kinds : SpawnDispatch(k)
          /\ UNCHANGED <<voiceVars, obsVars>>
       \/ /\ UNCHANGED dispatches
          /\ UNCHANGED <<voiceVars, obsVars>>
       \/ /\ SpeakCall("none")
          /\ UNCHANGED dispatches
    /\ UNCHANGED <<is_muted, is_listening, timers, greeted>>
    /\ UNCHANGED <<hotVars, brainVars, cmdVars, sideVars>>
    /\ WithinBound

(***************************************************************************)
(* LinnyAssistant.execute_command, _launch_app, _start_timer               *)
(***************************************************************************)

\* execute_command, a category that performs its action and speaks one
\* phrase (e.g. lines 903-907, 1015-1020): self.voice.speak(...); return
DispatchSimple ==
    /\ \E t \in BagToSet(dispatches) :
         /\ t = [kind |-> "simple", pc |-> "begin"]
         /\ dispatches' = BagRemove(dispatches, t)
    /\ SpeakCall("none")
    /\ UNCHANGED <<is_muted, is_listening, lpc, seenSpeaking, seenMuted,
                   timers, greeted>>
    /\ UNCHANGED <<hotVars, brainVars, cmdVars, sideVars>>
    /\ WithinBound

\* execute_command lines 996-1009 -> _launch_app, line 782: is_muted = True
LaunchMute ==
    /\ \E t \in BagToSet(dispatches) :
         /\ t = [kind |-> "launch", pc |-> "begin"]
         /\ dispatches' = BagReplace(dispatches, t, [t EXCEPT !.pc = "act"])
    /\ is_muted' = TRUE
    /\ UNCHANGED <<is_listening, lpc, seenSpeaking, seenMuted, timers, greeted>>
    /\ UNCHANGED <<voiceVars, hotVars, obsVars, brainVars, cmdVars, sideVars>>

\* _launch_app whose failure message (line 835) is spoken without the
\* callback
LaunchSpeakFailureNoCallback ==
    /\ \E t \in BagToSet(dispatches) :
         /\ t = [kind |-> "launch", pc |-> "act"]
         /\ dispatches' = BagRemove(dispatches, t)
    /\ \E launched \in BOOLEAN :
         SpeakCall(IF launched THEN "unmute" ELSE "none")
    /\ UNCHANGED <<is_muted, is_listening, lpc, seenSpeaking, seenMuted,
                   timers, greeted>>
    /\ UNCHANGED <<hotVars, brainVars, cmdVars, sideVars>>
    /\ WithinBound

\* _launch_app, lines 783-835: sleep(0.15), the launch (which may raise), then
\* speak("Opening ..." or "Couldn't find ...", callback=_post_launch_unmute)
LaunchSpeak ==
    /\ \E t \in BagToSet(dispatches) :
         /\ t = [kind |-> "launch", pc |-> "act"]
         /\ dispatches' = BagRemove(dispatches, t)
    /\ SpeakCall("unmute")
    /\ UNCHANGED <<is_muted, is_listening, lpc, seenSpeaking, seenMuted,
                   timers, greeted>>
    /\ UNCHANGED <<hotVars, brainVars, cmdVars, sideVars>>
    /\ WithinBound

\* execute_command lines 1057-1060 -> _start_timer, line 758: the timer
\* thread starts
TimerStart ==
    /\ \E t \in BagToSet(dispatches) :
         /\ t = [kind |-> "timer", pc |-> "begin"]
         /\ dispatches' = BagReplace(dispatches, t, [t EXCEPT !.pc = "act"])
    /\ timers' = timers + 1
    /\ UNCHANGED <<is_muted, is_listening, lpc, seenSpeaking, seenMuted, greeted>>
    /\ UNCHANGED <<voiceVars, hotVars, obsVars, brainVars, cmdVars, sideVars>>
    /\ WithinBound

\* _start_timer, line 759: speak("Timer set for ...")
TimerConfirm ==
    /\ \E t \in BagToSet(dispatches) :
         /\ t = [kind |-> "timer", pc |-> "act"]
         /\ dispatches' = BagRemove(dispatches, t)
    /\ SpeakCall("none")
    /\ UNCHANGED <<is_muted, is_listening, lpc, seenSpeaking, seenMuted,
                   timers, greeted>>
    /\ UNCHANGED <<hotVars, brainVars, cmdVars, sideVars>>
    /\ WithinBound

\* _start_timer.timer, lines 754-756: after the sleep, speak("... is done!")
TimerFire ==
    /\ timers > 0
    /\ timers' = timers - 1
    /\ SpeakCall("none")
    /\ UNCHANGED <<is_muted, is_listening, lpc, seenSpeaking, seenMuted,
                   dispatches, greeted>>
    /\ UNCHANGED <<hotVars, brainVars, cmdVars, sideVars>>
    /\ WithinBound

(***************************************************************************)
(* BrainManager (lines 298-399)                                            *)
(***************************************************************************)
Backends == {"perplexity", "groq", "gemini"}

\* what one backend call does: it answers with text, answers with the empty
\* string, or raises (network error, HTTP error status, malformed reply)
Outcomes == {"text", "empty", "raise"}

\* a value ask() returns, with the backend it came from
Answer(b, o) == <<b, IF o = "text" THEN "answer" ELSE "">>
\* line 399
Offline == <<"offline", "All AI systems are offline. Please check your API keys.">>
\* ask() has not returned
NoResult == <<"none", "">>

\* str.lower(), on the letters
UpperCase == <<"A","B","C","D","E","F","G","H","I","J","K","L","M",
               "N","O","P","Q","R","S","T","U","V","W","X","Y","Z">>
LowerCase == <<"a","b","c","d","e","f","g","h","i","j","k","l","m",
               "n","o","p","q","r","s","t","u","v","w","x","y","z">>
LowerChar(c) ==
    IF \E i \in DOMAIN UpperCase : UpperCase[i] = c
    THEN LowerCase[CHOOSE i \in DOMAIN UpperCase : UpperCase[i] = c]
    ELSE c
Lower(q) == [i \in DOMAIN q |-> LowerChar(q[i])]

\* k in q, for strings
Contains(q, k) ==
    \E i \in 0..(Len(q) - Len(k)) : SubSeq(q, i + 1, i + Len(k)) = k

\* _is_search, line 326
keywords == << <<"s","e","a","r","c","h">>, <<"p","r","i","c","e">>,
              <<"n","e","w","s">>, <<"l","a","t","e","s","t">>,
              <<"w","h","o">>, <<"w","h","a","t">>, <<"h","o","w">> >>
\* _is_search, line 327
IsSearch(q) == \E n \in DOMAIN keywords : Contains(Lower(q), keywords[n])

\* the queries asked: "Who", "show", "hi", "NEWS", "wha t", "" and "Pr1ce"
Queries == { <<"W","h","o">>, <<"s","h","o","w">>, <<"h","i">>,
             <<"N","E","W","S">>, <<"w","h","a"," ","t">>, <<>>,
             <<"P","r","1","c","e">> }

\* the values of the language argument: the settings menu of line 1421
Languages == {"English", "Tagalog"}

\* BrainManager.__init__ and _init_providers: a client is set when its key is
\* configured and its constructor did not raise
InitBrain ==
    /\ cfgP \in BOOLEAN
    /\ \E key \in BOOLEAN, ok \in BOOLEAN : groq_client = (key /\ ok)
    /\ \E key \in BOOLEAN, ok \in BOOLEAN : gemini_model = (key /\ ok)
    /\ query = <<>>
    /\ is_search = FALSE
    /\ apc = "idle"
    /\ calls = <<>>
    /\ result = NoResult
    /\ raised = FALSE
    /\ language = "English"

\* ask, lines 367-368, without the search branch: where ask() goes first
FirstStepChatOnly(s) == "groq"

\* ask, lines 367-368: if is_search: Perplexity first
FirstStep(s) == IF s THEN "p1" ELSE "groq"

\* ask, lines 360-367: a call of ask(q); is_search = self._is_search(query)
AskCall ==
    /\ apc \in {"idle", "done"}
    /\ language' \in Languages
    /\ \E q \in Queries :
         /\ query' = q
         /\ is_search' = IsSearch(q)
         /\ apc' = FirstStep(IsSearch(q))
    /\ calls' = <<>>
    /\ result' = NoResult
    /\ raised' = FALSE
    /\ UNCHANGED <<cfgP, groq_client, gemini_model>>
    /\ UNCHANGED <<voiceVars, asstVars, hotVars, obsVars, cmdVars, sideVars>>

\* _ask_perplexity, lines 331-358, and the test "if result:" of its caller:
\* without a key no request is made; a raise is caught and gives None; None
\* and the empty string are both falsy and ask() goes on to pcFail, or
\* returns the offline message when there is nowhere left to go
AskPerplexity(pcFail) ==
    /\ IF ~cfgP
       THEN /\ calls' = calls
            /\ IF pcFail = "done"
               THEN result' = Offline /\ apc' = "done"
               ELSE result' = result /\ apc' = pcFail
       ELSE \E o \in Outcomes :
              /\ calls' = Append(calls, <<"perplexity", o>>)
              /\ IF o = "text"
                 THEN result' = Answer("perplexity", o) /\ apc' = "done"
                 ELSE IF pcFail = "done"
                      THEN result' = Offline /\ apc' = "done"
                      ELSE result' = result /\ apc' = pcFail
    /\ UNCHANGED <<cfgP, groq_client, gemini_model, query, is_search, raised,
                   language>>
    /\ UNCHANGED <<voiceVars, asstVars, hotVars, obsVars, cmdVars, sideVars>>

\* ask, lines 367-370
AskPerplexityFirst == apc = "p1" /\ AskPerplexity("groq")

\* ask, lines 373-383, without the try: the exception leaves ask()
AskGroqNoTry ==
    /\ apc = "groq"
    /\ IF ~groq_client
       THEN apc' = "gemini" /\ UNCHANGED <<calls, result, raised>>
       ELSE \E o \in Outcomes :
              /\ calls' = Append(calls, <<"groq", o>>)
              /\ apc' = "done"
              /\ IF o = "raise"
                 THEN raised' = TRUE /\ result' = result
                 ELSE raised' = raised /\ result' = Answer("groq", o)
    /\ UNCHANGED <<cfgP, groq_client, gemini_model, query, is_search,
                   language>>
    /\ UNCHANGED <<voiceVars, asstVars, hotVars, obsVars, cmdVars, sideVars>>

\* ask, lines 373-383, with the cascade ending at an unset client
AskGroqStopsWhenUnset ==
    /\ apc = "groq"
    /\ IF ~groq_client
       THEN apc' = "done" /\ result' = Offline /\ calls' = calls
       ELSE \E o \in Outcomes :
              /\ calls' = Append(calls, <<"groq", o>>)
              /\ IF o = "raise"
                 THEN apc' = "gemini" /\ result' = result
                 ELSE apc' = "done" /\ result' = Answer("groq", o)
    /\ UNCHANGED <<cfgP, groq_client, gemini_model, query, is_search, raised,
                   language>>
    /\ UNCHANGED <<voiceVars, asstVars, hotVars, obsVars, cmdVars, sideVars>>

\* ask, lines 373-383: Groq, when the client is set; its content is returned
\* as it is, an exception is caught and ask() goes on
AskGroq ==
    /\ apc = "groq"
    /\ IF ~groq_client
       THEN apc' = "gemini" /\ UNCHANGED <<calls, result>>
       ELSE \E o \in Outcomes :
              /\ calls' = Append(calls, <<"groq", o>>)
              /\ IF o = "raise"
                 THEN apc' = "gemini" /\ result' = result
                 ELSE apc' = "done" /\ result' = Answer("groq", o)
    /\ UNCHANGED <<cfgP, groq_client, gemini_model, query, is_search, raised,
                   language>>
    /\ UNCHANGED <<voiceVars, asstVars, hotVars, obsVars, cmdVars, sideVars>>

\* ask, lines 386-392: Gemini, when the model is set
AskGemini ==
    /\ apc = "gemini"
    /\ IF ~gemini_model
       THEN apc' = "p2" /\ UNCHANGED <<calls, result>>
       ELSE \E o \in Outcomes :
              /\ calls' = Append(calls, <<"gemini", o>>)
              /\ IF o = "raise"
                 THEN apc' = "p2" /\ result' = result
                 ELSE apc' = "done" /\ result' = Answer("gemini", o)
    /\ UNCHANGED <<cfgP, groq_client, gemini_model, query, is_search, raised,
                   language>>
    /\ UNCHANGED <<voiceVars, asstVars, hotVars, obsVars, cmdVars, sideVars>>

\* ask, lines 395-399: Perplexity as the last resort, else the offline message
AskPerplexityLast == apc = "p2" /\ AskPerplexity("done")

(***************************************************************************)
(* The assistant's specification                                           *)
(***************************************************************************)

InitObservers ==
    /\ stopClean = FALSE
    /\ hIdle = FALSE
    /\ hEscaped = FALSE
    /\ hRow = <<>>
    /\ hSame = TRUE

\* no BrainManager.ask runs in Spec
BrainIdle ==
    /\ cfgP = FALSE
    /\ groq_client = FALSE
    /\ gemini_model = FALSE
    /\ query = <<>>
    /\ is_search = FALSE
    /\ apc = "idle"
    /\ calls = <<>>
    /\ result = NoResult
    /\ raised = FALSE
    /\ language = "English"

\* no execute_command call is followed
CmdIdle ==
    /\ text = ""
    /\ rule = "none"
    /\ cpc = "idle"
    /\ trace = <<>>
    /\ scheduled = {}

\* no _listen_loop thread besides the one lpc follows
LoopIdle == loops = EmptyBag /\ stream = "open"

\* the threads that call toggle_mute: the execute_command thread of "stop
\* listening" (line 1110), the GUI button (line 1470), the tray menu (line
\* 1305) and the keyboard hook (line 1566)
Callers == {"dispatcher", "gui", "tray", "hotkey"}

\* none of them is inside toggle_mute
MuteIdle ==
    /\ tog = [c \in Callers |-> "idle"]
    /\ flips = FALSE
    /\ userMuted = FALSE

\* LinnyApp.__init__, lines 1299 and 1310: assistant.brain is the
\* BrainManager built at startup; _save_settings is not running
SaveIdle ==
    /\ brain = [groq_client |-> groq_client, gemini_model |-> gemini_model]
    /\ spc = "idle"

SideIdle == LoopIdle /\ MuteIdle /\ SaveIdle

Init ==
    /\ InitVoice
    /\ InitAssistant
    /\ InitHotkey
    /\ InitObservers
    /\ BrainIdle
    /\ CmdIdle
    /\ SideIdle

Next ==
    \/ WorkerBegin
    \/ WorkerPlayEnd
    \/ WorkerFinally
    \/ WorkerCallback
    \/ HotkeyPress
    \/ StopEngine
    \/ StopClear
    \/ ToggleRead
    \/ ToggleWrite
    \/ StartListening
    \/ Greeting
    \/ LoopOuter
    \/ LoopCheckSpeaking
    \/ LoopCheckMuted
    \/ LoopStartCapture
    \/ LoopCaptureEnd
    \/ LoopPostSpeaking
    \/ LoopPostMuted
    \/ LoopRecognize
    \/ DispatchSimple
    \/ LaunchMute
    \/ LaunchSpeak
    \/ TimerStart
    \/ TimerConfirm
    \/ TimerFire

Spec == Init /\ [][Next]_vars

\* the loop thread is scheduled: a step it can take (time.sleep(0.1) returns,
\* the interpreter gives it the processor) is eventually taken
LoopFairness ==
    /\ WF_vars(LoopOuter)
    /\ WF_vars(LoopCheckSpeaking)
    /\ WF_vars(LoopCheckMuted)
    /\ WF_vars(LoopStartCapture)

\* the loop thread with the threads that set the two flags it waits on: the
\* speech workers, and the launches, which mute until their callback
NextFair ==
    \/ StartListening
    \/ Greeting
    \/ LoopOuter
    \/ LoopCheckSpeaking
    \/ LoopCheckMuted
    \/ LoopStartCapture
    \/ LoopCaptureEnd
    \/ LoopPostSpeaking
    \/ LoopPostMuted
    \/ LoopRecognize
    \/ DispatchSimple
    \/ LaunchMute
    \/ LaunchSpeak
    \/ TimerStart
    \/ TimerConfirm
    \/ TimerFire
    \/ WorkerBegin
    \/ WorkerPlayEnd
    \/ WorkerFinally
    \/ WorkerCallback

SpecFair == Init /\ [][NextFair]_vars /\ LoopFairness

\* line 1189 or 1195: an execute_command thread is started on a sentence
\* that was heard
CommandHeard ==
    /\ \E k \in Kinds : SpawnDispatch(k)
    /\ UNCHANGED <<is_muted, is_listening, lpc, seenSpeaking, seenMuted,
                   timers, greeted>>
    /\ UNCHANGED <<voiceVars, hotVars, obsVars, brainVars, cmdVars, sideVars>>
    /\ WithinBound

\* the execute_command threads, the speech workers and timers they start,
\* and the hotkey handler
NextVoice ==
    \/ CommandHeard
    \/ DispatchSimple
    \/ LaunchMute
    \/ LaunchSpeak
    \/ TimerStart
    \/ TimerConfirm
    \/ TimerFire
    \/ WorkerBegin
    \/ WorkerPlayEnd
    \/ WorkerFinally
    \/ WorkerCallback
    \/ HotkeyPress
    \/ StopEngine
    \/ StopClear
    \/ ToggleRead
    \/ ToggleWrite

\* the states a speech worker can be in
WorkerStates ==
    [pc : {"start", "play", "fin", "cb"}, cb : {"none", "unmute"},
     cleared : BOOLEAN, cut : BOOLEAN]

\* the next step of a speech worker that is in the state r
WorkerStep(r) ==
    /\ r \in BagToSet(workers)
    /\ \/ WorkerBeginOf(r)
       \/ /\ WorkerPlayEnd
          /\ r.pc = "play"
          /\ workers' = BagReplace(workers, r, [r EXCEPT !.pc = "fin"])
       \/ WorkerFinallyOf(r)
       \/ WorkerCallbackOf(r)

\* every thread that has a step to take takes one (runAndWait returns or
\* raises, the sleeps are finite), each speech worker on its own; what is
\* heard and the hotkey presses are up to the user
VoiceFairness ==
    /\ WF_vars(DispatchSimple) /\ WF_vars(LaunchMute) /\ WF_vars(LaunchSpeak)
    /\ WF_vars(TimerStart) /\ WF_vars(TimerConfirm) /\ WF_vars(TimerFire)
    /\ \A r \in WorkerStates : WF_vars(WorkerStep(r))
    /\ WF_vars(StopEngine) /\ WF_vars(StopClear)
    /\ WF_vars(ToggleRead) /\ WF_vars(ToggleWrite)

SpecVoice == Init /\ [][NextVoice]_vars /\ VoiceFairness

(***************************************************************************)
(* The router's specification: the assistant's threads do not run          *)
(***************************************************************************)
InitRouter ==
    /\ InitVoice
    /\ InitAssistant
    /\ InitHotkey
    /\ InitObservers
    /\ InitBrain
    /\ CmdIdle
    /\ SideIdle

NextBrain ==
    \/ AskCall
    \/ AskPerplexityFirst
    \/ AskGroq
    \/ AskGemini
    \/ AskPerplexityLast

SpecBrain == InitRouter /\ [][NextBrain]_vars

(***************************************************************************)
(* LinnyAssistant.execute_command (lines 837-1125), on strings             *)
(***************************************************************************)

\* str.lower() of a string
RECURSIVE LowerStr(_)
LowerStr(t) ==
    IF Len(t) = 0 THEN ""
    ELSE LowerChar(SubSeq(t, 1, 1)) \o LowerStr(SubSeq(t, 2, Len(t)))

\* any(w in t for w in ws)
ContainsAny(t, ws) == \E n \in DOMAIN ws : Contains(t, ws[n])

\* re.search(r'(\d+)', t) finds a match
HasDigit(t) ==
    \E i \in 1..Len(t) :
        SubSeq(t, i, i) \in {"0", "1", "2", "3", "4", "5", "6", "7", "8", "9"}

\* str.strip(), for the blanks of a recognised sentence
RECURSIVE Strip(_)
Strip(t) ==
    IF Len(t) = 0 THEN t
    ELSE IF SubSeq(t, 1, 1) = " " THEN Strip(SubSeq(t, 2, Len(t)))
    ELSE IF SubSeq(t, Len(t), Len(t)) = " " THEN Strip(SubSeq(t, 1, Len(t) - 1))
    ELSE t

\* t.replace(k, ""), k not empty
RECURSIVE Remove(_, _)
Remove(t, k) ==
    IF Len(t) < Len(k) THEN t
    ELSE IF SubSeq(t, 1, Len(k)) = k THEN Remove(SubSeq(t, Len(k) + 1, Len(t)), k)
    ELSE SubSeq(t, 1, 1) \o Remove(SubSeq(t, 2, Len(t)), k)

\* t.split(k, 1)[1], for k in t
AfterFirst(t, k) ==
    LET i == CHOOSE j \in 0..(Len(t) - Len(k)) :
                 /\ SubSeq(t, j + 1, j + Len(k)) = k
                 /\ \A h \in 0..(j - 1) : SubSeq(t, h + 1, h + Len(k)) # k
    IN SubSeq(t, i + Len(k) + 1, Len(t))

\* lines 846-854
wake_words ==
    << "linny", "lenny", "lini", "leni", "linnie", "lynny", "lanny",
       "leave me", "lily", "mini", "minny", "minnie", "mimi", "dini", "dinny",
       "nini", "ninny", "ni", "ginny", "hinny", "finny", "vinny", "winny",
       "pinny", "lhinny", "hey linny", "ok linny", "okay linny", "hi linny",
       "hello linny", "hey" >>

\* line 856, on text_lower
HasWake(tl) == ContainsAny(tl, wake_words)

\* lines 1005-1006 and 1094-1095: for w in wake_words: s = s.replace(w, "").strip()
RECURSIVE StripWake(_, _)
StripWake(t, n) ==
    IF n > Len(wake_words) THEN t
    ELSE LET u == Strip(Remove(t, wake_words[n]))
         IN IF Len(u) = 0 THEN u ELSE StripWake(u, n + 1)

\* lines 996-1002: the first verb of the list that is in the text decides;
\* "Accio" is never in a lowered text
LaunchVerbs == << "open", "launch", "start", "Accio" >>
AppName(tl) ==
    IF ~ContainsAny(tl, LaunchVerbs) THEN ""
    ELSE LET n == CHOOSE m \in DOMAIN LaunchVerbs :
                     /\ Contains(tl, LaunchVerbs[m])
                     /\ \A h \in 1..(m - 1) : ~Contains(tl, LaunchVerbs[h])
         IN Strip(AfterFirst(tl, LaunchVerbs[n]))

\* lines 1093-1095
Song(tl) == StripWake(Strip(Remove(Remove(tl, "play"), "on youtube")), 1)

\* line 953
Colors == << "red", "blue", "violet", "green", "warm" >>

\* the conditions under which execute_command takes a text (lowered) in each
\* of its rules, the rules named after what they do
Cond(r, tl) ==
    CASE r = "shutdown" -> ContainsAny(tl, << "shutdown", "shut down" >>)
      [] r = "reboot" ->
             ContainsAny(tl, << "reboot", "restart", "Reboot", "Restart" >>)
      [] r = "lock" ->
             Contains(tl, "lock") /\ ContainsAny(tl, << "computer", "pc" >>)
      [] r = "sleep" ->
             Contains(tl, "sleep") /\ ContainsAny(tl, << "computer", "pc" >>)
      [] r = "resume" ->
             ContainsAny(tl, << "resume", "unpause", "continue", "play music" >>)
      [] r = "pause" -> ContainsAny(tl, << "pause", "stop music" >>)
      [] r = "next" -> ContainsAny(tl, << "next", "skip" >>)
      [] r = "volume_up" -> ContainsAny(tl, << "volume up", "louder" >>)
      [] r = "volume_down" -> ContainsAny(tl, << "volume down", "softer" >>)
      [] r = "mute" -> Contains(tl, "mute") /\ ~Contains(tl, "unmute")
      [] r = "brightness" ->
             /\ Contains(tl, "lights") \/ Contains(tl, "brightness")
             /\ Contains(tl, "%") \/ Contains(tl, "percent") \/ Contains(tl, "to")
             /\ HasDigit(tl)
      [] r = "color" ->
             Contains(tl, "color") /\ Contains(tl, "lights") /\ ContainsAny(tl, Colors)
      [] r = "lights_on" ->
             ContainsAny(tl, << "turn on lights", "lights on", "turn on the lights",
                                "turn on bulb", "bulb on", "turn on the bulb",
                                "buksan ilaw", "buksan ang ilaw" >>)
      [] r = "lights_off" ->
             ContainsAny(tl, << "turn off lights", "lights off", "turn off the lights",
                                "turn off bulb", "bulb off", "turn off the bulb",
                                "patayin ilaw", "patayin ang ilaw", "patay ilaw" >>)
      [] r = "focus" -> Contains(tl, "focus mode") \/ Contains(tl, "focus")
      [] r = "movie" -> Contains(tl, "movie mode") \/ Contains(tl, "movie")
      [] r = "gaming" ->
             \/ Contains(tl, "gaming mode") \/ Contains(tl, "gaming")
             \/ Contains(tl, "game mode")
      [] r = "launch" -> AppName(tl) # ""
      [] r = "time" -> ContainsAny(tl, << "time", "oras", "what time" >>)
      [] r = "date" -> ContainsAny(tl, << "date", "day", "what day", "what is today" >>)
      [] r = "calendar" -> ContainsAny(tl, << "schedule", "calendar", "agenda" >>)
      [] r = "weather" -> ContainsAny(tl, << "weather", "panahon" >>)
      [] r = "timer" ->
             ContainsAny(tl, << "timer", "set timer", "pomodoro", "set a timer" >>)
      [] r = "clip" -> ContainsAny(tl, << "clip that", "record that" >>)
      [] r = "screenshot" ->
             ContainsAny(tl, << "screenshot", "take a screenshot", "capture screen",
                                "take screenshot" >>)
      [] r = "youtube" ->
             Contains(tl, "play") /\ Contains(tl, "youtube") /\ Len(Song(tl)) > 2
      [] r = "stop_listening" -> Contains(tl, "stop listening")
      [] r = "ai" -> TRUE

\* the rules in another order: the application launcher first
RuleOrderLaunchFirst ==
    << "launch", "shutdown", "reboot", "lock", "sleep",
       "resume", "pause", "next", "volume_up", "volume_down", "mute",
       "brightness", "color", "lights_on", "lights_off", "focus", "movie",
       "gaming", "time", "date", "calendar", "weather", "timer",
       "clip", "screenshot", "youtube", "stop_listening", "ai" >>

\* the rules in the order of the code: each is an if that ends in a return
RuleOrder ==
    << "shutdown", "reboot", "lock", "sleep",
       "resume", "pause", "next", "volume_up", "volume_down", "mute",
       "brightness", "color", "lights_on", "lights_off", "focus", "movie",
       "gaming", "launch", "time", "date", "calendar", "weather", "timer",
       "clip", "screenshot", "youtube", "stop_listening", "ai" >>

\* the wake word test left out
RuleNoWake(t) ==
    LET tl == LowerStr(t)
        n == CHOOSE m \in DOMAIN RuleOrder :
                 /\ Cond(RuleOrder[m], tl)
                 /\ \A h \in 1..(m - 1) : ~Cond(RuleOrder[h], tl)
    IN RuleOrder[n]

\* lines 843-1125: the rule that takes the text; "reject" is the return of
\* line 858
Rule(t) ==
    LET tl == LowerStr(t)
        n == CHOOSE m \in DOMAIN RuleOrder :
                 /\ Cond(RuleOrder[m], tl)
                 /\ \A h \in 1..(m - 1) : ~Cond(RuleOrder[h], tl)
    IN IF ~HasWake(tl) THEN "reject" ELSE RuleOrder[n]

\* the recognised sentences dispatched
Texts ==
    { "hello there", "what time is it", "Linny, what time is it",
      "HEY LINNY WHAT TIME IS IT", "Linny, pause and play music",
      "linny shutdown", "linny restart", "linny lock the pc",
      "linny sleep computer", "linny shutdown and pause",
      "linny resume", "linny pause", "linny next song", "linny volume up",
      "linny volume down", "linny mute", "linny pause and open chrome",
      "linny set lights to 50%", "linny set lights to max",
      "linny lights color blue", "linny lights color pink",
      "linny turn on the lights", "linny lights off", "linny focus mode",
      "linny movie mode", "linny gaming mode",
      "linny open chrome", "linny open", "linny what day is it",
      "linny my schedule", "linny weather", "linny set a timer for 5 minutes",
      "linny pomodoro 25", "linny pomodoro 0", "linny pomodoro",
      "linny clip that",
      "linny take a screenshot", "linny play despacito on youtube",
      "linny play on youtube", "linny stop listening",
      "linny tell me a joke", "good night" }

\* the rule of each sentence
RuleOf == [t \in Texts |-> Rule(t)]

\* int(c) of a digit
DigitValue(c) ==
    CASE c = "0" -> 0 [] c = "1" -> 1 [] c = "2" -> 2 [] c = "3" -> 3
      [] c = "4" -> 4 [] c = "5" -> 5 [] c = "6" -> 6 [] c = "7" -> 7
      [] c = "8" -> 8 [] c = "9" -> 9

\* the digits of t from position i on, read as a number after acc
RECURSIVE NumberAt(_, _, _)
NumberAt(t, i, acc) ==
    IF i > Len(t) \/ ~HasDigit(SubSeq(t, i, i)) THEN acc
    ELSE NumberAt(t, i + 1, acc * 10 + DigitValue(SubSeq(t, i, i)))

\* _start_timer, lines 751-753: int(re.search(r'(\d+)', text).group(1)), the
\* first run of digits of a text that has one
Minutes(t) ==
    LET first == CHOOSE i \in 1..Len(t) :
                     /\ HasDigit(SubSeq(t, i, i))
                     /\ \A j \in 1..(i - 1) : ~HasDigit(SubSeq(t, j, j))
    IN NumberAt(t, first, 0)

\* the minutes of each sentence that has a number
MinutesOf ==
    [t \in {u \in Texts : HasDigit(LowerStr(u))} |-> Minutes(LowerStr(t))]

PowerRules == {"shutdown", "reboot", "lock", "sleep"}
MediaRules == {"resume", "pause", "next", "volume_up", "volume_down", "mute"}
LightRules == {"brightness", "color", "lights_on", "lights_off", "focus",
               "movie", "gaming"}

\* the events of a call, as trace records them
Ext(what, ok) == <<"ext", what, ok>>        \* a collaborator called; it failed if ~ok
Spoke(phrase) == <<"speak", phrase, TRUE>>  \* self.voice.speak(phrase, ...)
Asked(ok) == <<"ask", "brain.ask", ok>>     \* self.brain.ask(...); ok: a backend answered
Scheduled(what) == <<"schedule", what, TRUE>> \* threading.Timer(...).start()
OsDone(what) == <<"os", what, TRUE>>        \* the OS action itself

\* what the rest of a step of the call leaves alone
CmdFrame ==
    /\ UNCHANGED <<is_listening, lpc, seenSpeaking, seenMuted, dispatches, greeted>>
    /\ UNCHANGED <<hotVars, brainVars, text, rule, sideVars>>

\* the step speaks its last phrase and the call returns
Finish(evs, cb) ==
    /\ trace' = trace \o evs
    /\ cpc' = "done"
    /\ SpeakCall(cb)

\* an exception leaves execute_command, which has no handler of its own: the
\* dispatch thread ends
Die(evs) ==
    /\ trace' = trace \o evs
    /\ cpc' = "died"
    /\ UNCHANGED <<voiceVars, obsVars>>

\* lines 843-858 and the tests of the rules: the thread of line 1189 / 1195
\* runs execute_command(text); without a wake word it returns at line 858
CmdCall ==
    /\ cpc = "idle"
    /\ \E t \in Texts :
         /\ text' = t
         /\ rule' = RuleOf[t]
         /\ cpc' = IF RuleOf[t] = "reject" THEN "done" ELSE "run"
    /\ trace' = <<>>
    /\ UNCHANGED scheduled
    /\ UNCHANGED <<voiceVars, asstVars, hotVars, obsVars, brainVars, sideVars>>

\* the call is over and the next sentence can be dispatched
CmdReturn ==
    /\ cpc \in {"done", "died"}
    /\ scheduled = {}
    /\ text' = ""
    /\ rule' = "none"
    /\ cpc' = "idle"
    /\ trace' = <<>>
    /\ UNCHANGED scheduled
    /\ UNCHANGED <<voiceVars, asstVars, hotVars, obsVars, brainVars, sideVars>>

\* lines 870, 877, 883, 889
PowerPhrase(r) ==
    CASE r = "shutdown" -> "Shutting down the System."
      [] r = "reboot" -> "Rebooting the System."
      [] r = "lock" -> "Locking the System."
      [] r = "sleep" -> "Putting the System to sleep."

\* lines 866-870, 875-877, 881-883, 887-889: (shutdown: lights.turn_off(),
\* which swallows its failure;) speak the confirmation
CmdPowerSpeak ==
    /\ cpc = "run" /\ rule \in PowerRules
    /\ \E ok \in BOOLEAN :
         trace' = trace \o (IF rule = "shutdown"
                            THEN << Ext("lights.turn_off", ok) >> ELSE << >>)
                        \o << Spoke(PowerPhrase(rule)) >>
    /\ cpc' = "sched"
    /\ SpeakCall("none")
    /\ UNCHANGED <<is_muted, timers, scheduled>>
    /\ CmdFrame
    /\ WithinBound

\* the OS action performed at once, inside execute_command
CmdPowerActNow ==
    /\ cpc = "sched"
    /\ trace' = Append(trace, OsDone(rule))
    /\ cpc' = "done"
    /\ UNCHANGED <<is_muted, timers, scheduled>>
    /\ UNCHANGED <<voiceVars, obsVars>>
    /\ CmdFrame

\* lines 871-873, 878-879, 884-885, 890-891: (shutdown: sleep(3);)
\* threading.Timer(delay, <the OS action>).start(); return
CmdPowerSchedule ==
    /\ cpc = "sched"
    /\ trace' = Append(trace, Scheduled(rule))
    /\ scheduled' = scheduled \cup {rule}
    /\ cpc' = "done"
    /\ UNCHANGED <<is_muted, timers>>
    /\ UNCHANGED <<voiceVars, obsVars>>
    /\ CmdFrame

\* the Timer thread of lines 872, 878, 884, 890 runs its lambda: os.system(
\* "shutdown ..."), LockWorkStation(), SetSuspendState
OsTimerFire ==
    /\ \E x \in scheduled :
         /\ scheduled' = scheduled \ {x}
         /\ trace' = Append(trace, OsDone(x))
    /\ UNCHANGED cpc
    /\ UNCHANGED <<is_muted, timers>>
    /\ UNCHANGED <<voiceVars, obsVars>>
    /\ CmdFrame

\* lines 899-932: the key pressed, how many times, and the phrase spoken
MediaKey(r) ==
    CASE r \in {"resume", "pause"} -> "playpause"
      [] r = "next" -> "nexttrack"
      [] r = "volume_up" -> "volumeup"
      [] r = "volume_down" -> "volumedown"
      [] r = "mute" -> "volumemute"
MediaPresses(r) == IF r \in {"volume_up", "volume_down"} THEN 2 ELSE 1
MediaPhrase(r) ==
    CASE r = "resume" -> "Playing."
      [] r = "pause" -> "Paused."
      [] r = "next" -> "Next."
      [] r = "volume_up" -> "Volume up."
      [] r = "volume_down" -> "Volume down."
      [] r = "mute" -> "Muted."

\* lines 897-933: pyautogui.press(key) (twice for the volume), then speak; a
\* press that raises (pyautogui's fail-safe, no display) is caught nowhere
CmdMedia ==
    /\ cpc = "run" /\ rule \in MediaRules
    /\ \E failAt \in 0..MediaPresses(rule) :
         LET key == "pyautogui.press " \o MediaKey(rule)
             done == [i \in 1..(IF failAt = 0 THEN MediaPresses(rule) ELSE failAt)
                        |-> Ext(key, i # failAt)]
         IN IF failAt = 0
            THEN Finish(done \o << Spoke(MediaPhrase(rule)) >>, "none")
            ELSE Die(done)
    /\ UNCHANGED <<is_muted, timers, scheduled>>
    /\ CmdFrame
    /\ WithinBound

\* lines 945-989: the LightManager method called
LightCall(r) ==
    CASE r = "brightness" -> "lights.set_brightness"
      [] r = "color" -> "lights.set_color"
      [] r = "lights_on" -> "lights.turn_on"
      [] r = "lights_off" -> "lights.turn_off"
      [] r \in {"focus", "movie", "gaming"} -> "lights.set_mode"
\* lines 946-989: the phrase spoken after the call returned ok
LightPhrase(r, ok) ==
    CASE r = "brightness" ->
             IF ok THEN "Lights set to <level> percent."
             ELSE "I couldn't set the brightness."
      [] r = "color" ->
             IF ok THEN "Lights changed to <color>."
             ELSE "I couldn't change the color to <color>."
      [] r = "lights_on" -> "Lights turned on."
      [] r = "lights_off" -> "Lights turned off."
      [] r = "focus" -> "Focus mode activated."
      [] r = "movie" -> "Movie mode activated."
      [] r = "gaming" -> "Gaming mode activated."

\* lines 940-990 with LightManager (lines 168-296): set_brightness and
\* set_color return False when the bulb is not connected or the call raises;
\* turn_on, turn_off and set_mode log the failure and return None either way
CmdLights ==
    /\ cpc = "run" /\ rule \in LightRules
    /\ \E ok \in BOOLEAN :
         Finish(<< Ext(LightCall(rule), ok), Spoke(LightPhrase(rule, ok)) >>, "none")
    /\ UNCHANGED <<is_muted, timers, scheduled>>
    /\ CmdFrame
    /\ WithinBound

\* lines 1004-1009 -> _launch_app (lines 766-835): is_muted = True; the
\* launch (webbrowser.open / os.startfile / Popen), which may raise; speak
\* "Opening ..." or, in the except, "Couldn't find ...", both with the
\* callback _post_launch_unmute
CmdLaunch ==
    /\ cpc = "run" /\ rule = "launch"
    /\ is_muted' = TRUE
    /\ \E ok \in BOOLEAN :
         Finish(<< Ext("launch", ok),
                   Spoke(IF ok THEN "Opening <app>." ELSE "Couldn't find <app>.") >>,
                "unmute")
    /\ UNCHANGED <<timers, scheduled>>
    /\ CmdFrame
    /\ WithinBound

\* strftime("%I:%M %p") and strftime("%A, %B %d, %Y") of the moment of the call
ClockTimes == {"09:05 AM", "11:59 PM"}
Dates == {"Sunday, November 01, 2026"}

\* the time asked of the brain instead of read from the clock
CmdTimeViaBrain ==
    /\ cpc = "run" /\ rule \in {"time", "date"}
    /\ \E ok \in BOOLEAN :
         Finish(<< Asked(ok), Spoke(IF ok THEN "<answer>" ELSE Offline[2]) >>, "none")
    /\ UNCHANGED <<is_muted, timers, scheduled>>
    /\ CmdFrame
    /\ WithinBound

\* lines 1015-1020 and 1026-1031: the time or the date, formatted in the
\* configured timezone (the one CalendarManager was built with at startup)
CmdTime ==
    /\ cpc = "run" /\ rule \in {"time", "date"}
    /\ \E ts \in ClockTimes, ds \in Dates :
         Finish(<< Spoke(IF rule = "time" THEN "It is " \o ts \o "."
                         ELSE "Today is " \o ds \o ".") >>, "none")
    /\ UNCHANGED <<is_muted, timers, scheduled>>
    /\ CmdFrame
    /\ WithinBound

\* lines 1037-1051: calendar.get_schedule(query=text) (lines 458-535) or
\* _get_weather() (lines 700-746); both catch their failures and return the
\* sentence to speak
CmdLookup ==
    /\ cpc = "run" /\ rule \in {"calendar", "weather"}
    /\ \E ok \in BOOLEAN :
         Finish(<< Ext(IF rule = "calendar" THEN "calendar.get_schedule"
                       ELSE "_get_weather", ok),
                   Spoke(IF ok THEN "<" \o rule \o ">"
                         ELSE IF rule = "calendar" THEN "Could not access calendar."
                         ELSE "Could not get weather.") >>, "none")
    /\ UNCHANGED <<is_muted, timers, scheduled>>
    /\ CmdFrame
    /\ WithinBound

\* lines 1057-1060 -> _start_timer, lines 750-758 and 760-761: with a number
\* in the text the timer thread is started (line 758); without one, the
\* apology is spoken
CmdTimer ==
    /\ cpc = "run" /\ rule = "timer"
    /\ IF HasDigit(LowerStr(text))
       THEN /\ timers' = timers + 1
            /\ cpc' = "timer_set"
            /\ UNCHANGED <<trace, voiceVars, obsVars>>
       ELSE /\ timers' = timers
            /\ Finish(<< Spoke("I couldn't understand the duration.") >>, "none")
    /\ UNCHANGED <<is_muted, scheduled>>
    /\ CmdFrame
    /\ WithinBound

\* _start_timer, line 759: speak("Timer set for ... minutes.")
CmdTimerConfirm ==
    /\ cpc = "timer_set"
    /\ Finish(<< Spoke("Timer set for <n> minutes.") >>, "none")
    /\ UNCHANGED <<is_muted, timers, scheduled>>
    /\ CmdFrame
    /\ WithinBound

\* _start_timer.timer, lines 754-756: time.sleep(minutes * 60) is over and
\* the completion is spoken.  A sleep of a minute or more outlasts the one
\* statement between the thread's start (line 758) and line 759; a sleep of
\* 0 seconds does not
TimerDone ==
    /\ (cpc = "timer_set" /\ MinutesOf[text] > 0) => timers > 1
    /\ TimerFire

\* lines 1066-1086: pyautogui.hotkey('alt', 'f10'), outside any try, or the
\* screenshot inside one
CmdUtility ==
    /\ cpc = "run" /\ rule \in {"clip", "screenshot"}
    /\ \E ok \in BOOLEAN :
         IF rule = "clip"
         THEN IF ok
              THEN Finish(<< Ext("pyautogui.hotkey alt f10", TRUE), Spoke("Clipped.") >>,
                          "none")
              ELSE Die(<< Ext("pyautogui.hotkey alt f10", FALSE) >>)
         ELSE Finish(<< Ext("pyautogui.screenshot", ok),
                        Spoke(IF ok THEN "Fullscreen screenshot taken."
                              ELSE "I couldn't take the screenshot.") >>, "none")
    /\ UNCHANGED <<is_muted, timers, scheduled>>
    /\ CmdFrame
    /\ WithinBound

\* lines 1097-1105: pywhatkit.playonyt(song) inside a try
CmdYouTube ==
    /\ cpc = "run" /\ rule = "youtube"
    /\ \E ok \in BOOLEAN :
         Finish(<< Ext("pywhatkit.playonyt", ok),
                   Spoke(IF ok THEN "Playing " \o Song(LowerStr(text)) \o "."
                         ELSE "YouTube failed.") >>, "none")
    /\ UNCHANGED <<is_muted, timers, scheduled>>
    /\ CmdFrame
    /\ WithinBound

\* lines 1107-1113: speak the goodbye, then toggle_mute()
CmdStopListening ==
    /\ cpc = "run" /\ rule = "stop_listening"
    /\ Finish(<< Spoke("Stopping listening. Goodbye!") >>, "none")
    /\ is_muted' = ~is_muted
    /\ UNCHANGED <<timers, scheduled>>
    /\ CmdFrame
    /\ WithinBound

\* lines 1119-1125: response = self.brain.ask(text, ...), which returns a
\* backend's answer or the offline message; self.voice.speak(response)
CmdInference ==
    /\ cpc = "run" /\ rule = "ai"
    /\ \E ok \in BOOLEAN :
         Finish(<< Asked(ok), Spoke(IF ok THEN "<answer>" ELSE Offline[2]) >>, "none")
    /\ UNCHANGED <<is_muted, timers, scheduled>>
    /\ CmdFrame
    /\ WithinBound

(***************************************************************************)
(* The dispatcher's specification: one execute_command call at a time,     *)
(* with the speech workers and the timers it starts                        *)
(***************************************************************************)
NextDispatch ==
    \/ CmdCall
    \/ CmdReturn
    \/ CmdPowerSpeak
    \/ CmdPowerSchedule
    \/ OsTimerFire
    \/ CmdMedia
    \/ CmdLights
    \/ CmdLaunch
    \/ CmdTime
    \/ CmdLookup
    \/ CmdTimer
    \/ CmdTimerConfirm
    \/ CmdUtility
    \/ CmdYouTube
    \/ CmdStopListening
    \/ CmdInference
    \/ TimerDone
    \/ WorkerBegin
    \/ WorkerPlayEnd
    \/ WorkerFinally
    \/ WorkerCallback

SpecDispatch == Init /\ [][NextDispatch]_vars

(***************************************************************************)
(* LinnyAssistant.start_listening, stop_listening and the _listen_loop      *)
(* threads they start (lines 1127-1277): every call of start_listening     *)
(* that finds is_listening false starts a thread, and stop_listening does   *)
(* not wait for the thread it stops                                         *)
(***************************************************************************)

\* a _listen_loop thread: pc its position; heard an observer (a chunk of the
\* capture of this iteration was recorded while is_speaking or is_muted was
\* true); last an observer (how the iteration that just ended ended)
NewLoop == [pc |-> "outer", heard |-> FALSE, last |-> <<>>]

\* the thread is back at line 1135 after an iteration that ended as e
BackAtOuter(e) == [pc |-> "outer", heard |-> FALSE, last |-> e]

\* line 1157: what recognizer.listen does -- returns audio, or raises
\* WaitTimeoutError, UnknownValueError, RequestError or another exception
CaptureOutcomes == {"audio", "timeout", "unknown", "request", "other"}

\* lines 1187-1189 and 1193-1195: what recognize_google and the Thread start
\* that follows it do -- a text is recognised and the thread started, or the
\* start raises, or recognize_google raises UnknownValueError, RequestError
\* or another exception
RecOutcomes == {"text", "spawn_raise", "unknown", "request", "other"}

\* the capture calls in progress
Capturing ==
    LET S == {l \in BagToSet(loops) : l.pc = "capturing"}
        Sum[T \in SUBSET S] ==
            IF T = {} THEN 0
            ELSE LET x == CHOOSE y \in T : TRUE
                 IN CopiesIn(x, loops) + Sum[T \ {x}]
    IN Sum[S]

\* what a step of a loop thread leaves alone besides the bag of threads
ListenFrame ==
    /\ UNCHANGED <<is_muted, is_listening, lpc, seenSpeaking, seenMuted,
                   timers, greeted, stream>>
    /\ UNCHANGED <<hotVars, brainVars, cmdVars, muteVars, saveVars>>

\* and a step that neither speaks nor dispatches
ListenQuiet ==
    /\ UNCHANGED <<voiceVars, obsVars, dispatches>>
    /\ ListenFrame

\* line 1220: max_retries = 3
max_retries == 3

\* lines 1234-1263: the attempts are made in order until one opens and
\* calibrates the source (break) or the last has failed (return); an outcome
\* is the number of attempts that fail, max_retries when none succeeds
AttemptOutcomes == 0..max_retries

\* one of the attempts succeeded
SourceOpens(failed) == failed < max_retries

\* start_listening without the return of line 1263: after the failure
\* message the function goes on to line 1265
StartListeningNoReturn(failed) ==
    /\ IF is_listening
       THEN UNCHANGED <<is_listening, loopVars, voiceVars, obsVars>>
       ELSE /\ is_listening' = TRUE
            /\ loops' = BagAdd(loops, NewLoop)
            /\ stream' = "open"
            /\ IF SourceOpens(failed)
               THEN UNCHANGED <<voiceVars, obsVars>>
               ELSE SpeakCall("none")
    /\ UNCHANGED <<is_muted, lpc, seenSpeaking, seenMuted, dispatches, timers,
                   greeted>>
    /\ UNCHANGED <<hotVars, brainVars, cmdVars, muteVars, saveVars>>
    /\ WithinBound

\* start_listening (lines 1217-1267), called at any time: nothing if
\* is_listening (line 1219); else the source opens in one of the attempts
\* (is_listening = True and a new _listen_loop thread starts, lines
\* 1265-1266) or all attempts fail (the failure message is spoken, line 1260,
\* and the function returns, line 1263)
StartListeningOf(failed) ==
    /\ IF is_listening
       THEN UNCHANGED <<is_listening, loopVars, voiceVars, obsVars>>
       ELSE IF SourceOpens(failed)
       THEN /\ is_listening' = TRUE
            /\ loops' = BagAdd(loops, NewLoop)
            /\ stream' = "open"
            /\ UNCHANGED <<voiceVars, obsVars>>
       ELSE /\ SpeakCall("none")
            /\ UNCHANGED <<is_listening, loopVars>>
    /\ UNCHANGED <<is_muted, lpc, seenSpeaking, seenMuted, dispatches, timers,
                   greeted>>
    /\ UNCHANGED <<hotVars, brainVars, cmdVars, muteVars, saveVars>>
    /\ WithinBound

StartListeningCall ==
    \E failed \in AttemptOutcomes : StartListeningOf(failed)

\* stop_listening (lines 1269-1277): is_listening = False; the source is
\* closed (a capture in progress on it ends as recognizer.listen decides);
\* the loop thread is not joined
StopListening ==
    /\ is_listening' = FALSE
    /\ UNCHANGED <<is_muted, lpc, seenSpeaking, seenMuted, dispatches, timers,
                   greeted>>
    /\ UNCHANGED <<voiceVars, hotVars, obsVars, brainVars, cmdVars, sideVars>>

\* line 1135: while self.is_listening -- false: the thread ends
ListenOuter(l) ==
    /\ l.pc = "outer"
    /\ loops' = IF is_listening
                THEN BagReplace(loops, l, [NewLoop EXCEPT !.pc = "chk_s"])
                ELSE BagRemove(loops, l)
    /\ ListenQuiet

\* line 1138: the read of self.voice.is_speaking; true: sleep(0.1), again
ListenCheckSpeaking(l) ==
    /\ l.pc = "chk_s"
    /\ loops' = IF is_speaking THEN loops
                ELSE BagReplace(loops, l, [l EXCEPT !.pc = "chk_m"])
    /\ ListenQuiet

\* line 1138: the read of self.is_muted; true: sleep(0.1), test again
ListenCheckMuted(l) ==
    /\ l.pc = "chk_m"
    /\ loops' = BagReplace(loops, l,
                    [l EXCEPT !.pc = IF is_muted THEN "chk_s" ELSE "pre"])
    /\ ListenQuiet

\* lines 1141-1157: the call of recognizer.listen (source is never None: it
\* is set before the thread starts, line 1236, and never cleared)
ListenStartCapture(l) ==
    /\ l.pc = "pre"
    /\ loops' = BagReplace(loops, l, [l EXCEPT !.pc = "capturing"])
    /\ ListenQuiet

\* line 1157, inside recognizer.listen: a chunk is read from the microphone
\* while the assistant is speaking or muted
ListenChunk(l) ==
    /\ l.pc = "capturing"
    /\ ~l.heard
    /\ is_speaking \/ is_muted
    /\ loops' = BagReplace(loops, l, [l EXCEPT !.heard = TRUE])
    /\ ListenQuiet

\* line 1157 and the handlers of lines 1166-1182: listen returns audio, or
\* raises and the handler continues; a read of a dead stream raises an
\* exception that only the handler of line 1179 catches
ListenCaptureEnd(l, o) ==
    /\ l.pc = "capturing"
    /\ stream = "dead" => o = "other"
    /\ loops' = BagReplace(loops, l,
                    IF o = "audio" THEN [l EXCEPT !.pc = "post_s"]
                    ELSE BackAtOuter(<<"listen", o>>))
    /\ ListenQuiet

\* line 1160: the read of self.voice.is_speaking; true: discard, continue
ListenPostSpeaking(l) ==
    /\ l.pc = "post_s"
    /\ loops' = BagReplace(loops, l,
                    IF is_speaking THEN BackAtOuter(<<"discard">>)
                    ELSE [l EXCEPT !.pc = "post_m"])
    /\ ListenQuiet

\* line 1160 with the test of is_muted made after the recognition: the
\* buffer goes to recognize_google whatever is_muted is
ListenPostMutedLate(l) ==
    /\ l.pc = "post_m"
    /\ loops' = BagReplace(loops, l, [l EXCEPT !.pc = "recog"])
    /\ ListenQuiet

\* line 1160: the read of self.is_muted; true: discard, continue
ListenPostMuted(l) ==
    /\ l.pc = "post_m"
    /\ loops' = BagReplace(loops, l,
                    IF is_muted THEN BackAtOuter(<<"discard">>)
                    ELSE [l EXCEPT !.pc = "recog"])
    /\ ListenQuiet

\* the outcomes of the two attempts that go together: the second attempt is
\* made when the first raised UnknownValueError
Attempts(o1, o2) == (o1 = "unknown") <=> (o2 # "none")

\* an execute_command thread was started
Spawned(o1, o2) == o1 = "text" \/ (o1 = "unknown" /\ o2 = "text")

\* the exception reached the handler of lines 1208-1215: one raised inside
\* the handler of line 1190 that is not the UnknownValueError of line 1196
ReachedOuterHandler(o1, o2) ==
    o1 = "unknown" /\ o2 \in {"spawn_raise", "request", "other"}

\* lines 1185-1215 with a wait for the thread it starts: the next sentence
\* is recognised when no execute_command thread is running
ListenRecognizeJoined(l, o1, o2) ==
    /\ l.pc = "recog"
    /\ dispatches = EmptyBag
    /\ Attempts(o1, o2)
    /\ loops' = BagReplace(loops, l, BackAtOuter(<<"recognize", o1, o2>>))
    /\ \/ /\ Spawned(o1, o2)
          /\ \E k \in Kinds : SpawnDispatch(k)
          /\ UNCHANGED <<voiceVars, obsVars>>
       \/ /\ ReachedOuterHandler(o1, o2)
          /\ SpeakCall("none")
          /\ UNCHANGED dispatches
       \/ /\ ~Spawned(o1, o2) /\ ~ReachedOuterHandler(o1, o2)
          /\ UNCHANGED <<voiceVars, obsVars, dispatches>>
    /\ ListenFrame
    /\ WithinBound

\* lines 1185-1215 without the handler of line 1208: the exception that
\* leaves the handler of line 1190 ends the thread
ListenRecognizeNoOuterCatch(l, o1, o2) ==
    /\ l.pc = "recog"
    /\ Attempts(o1, o2)
    /\ loops' = IF ReachedOuterHandler(o1, o2)
                THEN BagRemove(loops, l)
                ELSE BagReplace(loops, l, BackAtOuter(<<"recognize", o1, o2>>))
    /\ \/ /\ Spawned(o1, o2)
          /\ \E k \in Kinds : SpawnDispatch(k)
          /\ UNCHANGED <<voiceVars, obsVars>>
       \/ /\ ~Spawned(o1, o2)
          /\ UNCHANGED <<voiceVars, obsVars, dispatches>>
    /\ ListenFrame
    /\ WithinBound

\* lines 1185-1215 with the 'fil-PH' attempt made after any exception of the
\* first attempt, not after UnknownValueError alone
ListenRecognizeRetryAlways(l, o1, o2) ==
    /\ l.pc = "recog"
    /\ (o1 \in {"unknown", "request", "other"}) <=> (o2 # "none")
    /\ loops' = BagReplace(loops, l, BackAtOuter(<<"recognize", o1, o2>>))
    /\ \/ /\ o1 = "text" \/ o2 = "text"
          /\ \E k \in Kinds : SpawnDispatch(k)
          /\ UNCHANGED <<voiceVars, obsVars>>
       \/ /\ o1 # "text" /\ o2 \in {"spawn_raise", "request", "other"}
          /\ SpeakCall("none")
          /\ UNCHANGED dispatches
       \/ /\ o1 # "text" /\ o2 \notin {"text", "spawn_raise", "request", "other"}
          /\ UNCHANGED <<voiceVars, obsVars, dispatches>>
    /\ ListenFrame
    /\ WithinBound

\* lines 1185-1215: recognize_google(audio, 'en-US') and the Thread start --
\* RequestError (line 1200) and any other exception (line 1204) continue
\* without a word; UnknownValueError (line 1190) tries 'fil-PH' and the
\* Thread start, whose UnknownValueError continues without a word (line
\* 1196) and whose other exceptions leave the handler and are caught at line
\* 1208, which speaks the glitch apology (line 1211) and continues
ListenRecognize(l, o1, o2) ==
    /\ l.pc = "recog"
    /\ Attempts(o1, o2)
    /\ loops' = BagReplace(loops, l, BackAtOuter(<<"recognize", o1, o2>>))
    /\ \/ /\ Spawned(o1, o2)
          /\ \E k \in Kinds : SpawnDispatch(k)
          /\ UNCHANGED <<voiceVars, obsVars>>
       \/ /\ ReachedOuterHandler(o1, o2)
          /\ SpeakCall("none")
          /\ UNCHANGED dispatches
       \/ /\ ~Spawned(o1, o2) /\ ~ReachedOuterHandler(o1, o2)
          /\ UNCHANGED <<voiceVars, obsVars, dispatches>>
    /\ ListenFrame
    /\ WithinBound

\* one step of the loop thread l
ListenStep(l) ==
    \/ ListenOuter(l)
    \/ ListenCheckSpeaking(l)
    \/ ListenCheckMuted(l)
    \/ ListenStartCapture(l)
    \/ ListenChunk(l)
    \/ \E o \in CaptureOutcomes : ListenCaptureEnd(l, o)
    \/ ListenPostSpeaking(l)
    \/ ListenPostMuted(l)
    \/ \E o1 \in RecOutcomes, o2 \in RecOutcomes \cup {"none"} :
         ListenRecognize(l, o1, o2)

\* the listening threads with the execute_command threads they start and the
\* speech workers and timers those start
NextLoop ==
    \/ StartListeningCall
    \/ StopListening
    \/ \E l \in BagToSet(loops) : ListenOuter(l)
    \/ \E l \in BagToSet(loops) : ListenCheckSpeaking(l)
    \/ \E l \in BagToSet(loops) : ListenCheckMuted(l)
    \/ \E l \in BagToSet(loops) : ListenStartCapture(l)
    \/ \E l \in BagToSet(loops) : ListenChunk(l)
    \/ \E l \in BagToSet(loops), o \in CaptureOutcomes : ListenCaptureEnd(l, o)
    \/ \E l \in BagToSet(loops) : ListenPostSpeaking(l)
    \/ \E l \in BagToSet(loops) : ListenPostMuted(l)
    \/ \E l \in BagToSet(loops), o1 \in RecOutcomes,
          o2 \in RecOutcomes \cup {"none"} : ListenRecognize(l, o1, o2)
    \/ DispatchSimple
    \/ LaunchMute
    \/ LaunchSpeak
    \/ TimerStart
    \/ TimerConfirm
    \/ TimerFire
    \/ WorkerBegin
    \/ WorkerPlayEnd
    \/ WorkerFinally
    \/ WorkerCallback

SpecLoop == Init /\ [][NextLoop]_vars

(***************************************************************************)
(* LinnyAssistant.toggle_mute (lines 1279-1284) called by the threads that *)
(* reach it                                                                *)
(***************************************************************************)

\* what a step of toggle_mute leaves alone
ToggleMuteFrame ==
    /\ UNCHANGED <<is_listening, lpc, seenSpeaking, seenMuted, dispatches,
                   timers, greeted>>
    /\ UNCHANGED <<voiceVars, hotVars, obsVars, brainVars, cmdVars, loopVars,
                   saveVars>>

\* line 1281, the right-hand side: the thread c reads self.is_muted
ToggleMuteRead(c) ==
    /\ tog[c] = "idle"
    /\ tog' = [tog EXCEPT ![c] = IF is_muted THEN "read_true" ELSE "read_false"]
    /\ flips' = ~flips
    /\ UNCHANGED userMuted
    /\ UNCHANGED is_muted
    /\ ToggleMuteFrame

\* line 1281, the assignment: self.is_muted = not <the value c read>
ToggleMuteWrite(c) ==
    /\ tog[c] # "idle"
    /\ is_muted' = (tog[c] = "read_false")
    /\ userMuted' = is_muted'
    /\ tog' = [tog EXCEPT ![c] = "idle"]
    /\ UNCHANGED flips
    /\ ToggleMuteFrame

NextMute ==
    \/ \E c \in Callers : ToggleMuteRead(c)
    \/ \E c \in Callers : ToggleMuteWrite(c)

SpecMute == Init /\ [][NextMute]_vars

\* the mute requests of the user -- the GUI's Mute button and the "stop
\* listening" command -- with the launches, which mute on their own
UserCallers == {"gui", "dispatcher"}

NextUser ==
    \/ \E c \in UserCallers : ToggleMuteRead(c)
    \/ \E c \in UserCallers : ToggleMuteWrite(c)
    \/ CommandHeard
    \/ DispatchSimple
    \/ LaunchMute
    \/ LaunchSpeak
    \/ TimerStart
    \/ TimerConfirm
    \/ TimerFire
    \/ WorkerBegin
    \/ WorkerPlayEnd
    \/ WorkerFinally
    \/ WorkerCallback

SpecUser == Init /\ [][NextUser]_vars

(***************************************************************************)
(* The listening threads with what the user and the audio device do to     *)
(* them: the GUI's Mute button, Exit (stop_listening) and a device that    *)
(* stops delivering audio.  Every thread goes on running: the threads are  *)
(* scheduled fairly, recognizer.listen is called with timeout=5 and        *)
(* phrase_time_limit=8, and the sleeps are finite.                         *)
(***************************************************************************)

\* the stream of self.microphone stops delivering audio (the device is
\* unplugged or its driver fails): every read of it raises from now on
StreamDies ==
    /\ stream = "open"
    /\ stream' = "dead"
    /\ UNCHANGED <<voiceVars, asstVars, hotVars, obsVars, brainVars, cmdVars,
                   loops, muteVars, saveVars>>

NextStop ==
    \/ StartListeningCall
    \/ StopListening
    \/ StreamDies
    \/ ToggleMuteRead("gui")
    \/ ToggleMuteWrite("gui")
    \/ \E l \in BagToSet(loops) : ListenOuter(l)
    \/ \E l \in BagToSet(loops) : ListenCheckSpeaking(l)
    \/ \E l \in BagToSet(loops) : ListenCheckMuted(l)
    \/ \E l \in BagToSet(loops) : ListenStartCapture(l)
    \/ \E l \in BagToSet(loops) : ListenChunk(l)
    \/ \E l \in BagToSet(loops), o \in CaptureOutcomes : ListenCaptureEnd(l, o)
    \/ \E l \in BagToSet(loops) : ListenPostSpeaking(l)
    \/ \E l \in BagToSet(loops) : ListenPostMuted(l)
    \/ \E l \in BagToSet(loops), o1 \in RecOutcomes,
          o2 \in RecOutcomes \cup {"none"} : ListenRecognize(l, o1, o2)
    \/ DispatchSimple
    \/ LaunchMute
    \/ LaunchSpeak
    \/ TimerStart
    \/ TimerConfirm
    \/ TimerFire
    \/ WorkerBegin
    \/ WorkerPlayEnd
    \/ WorkerFinally
    \/ WorkerCallback

\* every thread that has a step to take takes one; the user and the device
\* owe nothing
StopFairness ==
    /\ WF_vars(\E l \in BagToSet(loops) : ListenOuter(l))
    /\ WF_vars(\E l \in BagToSet(loops) : ListenCheckSpeaking(l))
    /\ WF_vars(\E l \in BagToSet(loops) : ListenCheckMuted(l))
    /\ WF_vars(\E l \in BagToSet(loops) : ListenStartCapture(l))
    /\ WF_vars(\E l \in BagToSet(loops), o \in CaptureOutcomes :
                 ListenCaptureEnd(l, o))
    /\ WF_vars(\E l \in BagToSet(loops) : ListenPostSpeaking(l))
    /\ WF_vars(\E l \in BagToSet(loops) : ListenPostMuted(l))
    /\ WF_vars(\E l \in BagToSet(loops), o1 \in RecOutcomes,
                   o2 \in RecOutcomes \cup {"none"} : ListenRecognize(l, o1, o2))
    /\ WF_vars(ToggleMuteWrite("gui"))
    /\ WF_vars(DispatchSimple) /\ WF_vars(LaunchMute) /\ WF_vars(LaunchSpeak)
    /\ WF_vars(TimerStart) /\ WF_vars(TimerConfirm) /\ WF_vars(TimerFire)
    /\ WF_vars(WorkerBegin) /\ WF_vars(WorkerPlayEnd)
    /\ WF_vars(WorkerFinally) /\ WF_vars(WorkerCallback)

SpecStop == Init /\ [][NextStop]_vars /\ StopFairness

(***************************************************************************)
(* LinnyApp._save_settings (lines 1479-1497) while execute_command threads  *)
(* call BrainManager.ask                                                   *)
(***************************************************************************)

\* execute_command, lines 1119-1124: self.brain.ask(...) -- ask() runs on the
\* BrainManager that assistant.brain refers to at the call, with that
\* object's clients, and reads the config dict it was built with
AssistantAsk ==
    /\ apc \in {"idle", "done"}
    /\ groq_client' = brain.groq_client
    /\ gemini_model' = brain.gemini_model
    /\ language' \in Languages
    /\ \E q \in Queries :
         /\ query' = q
         /\ is_search' = IsSearch(q)
         /\ apc' = FirstStep(IsSearch(q))
    /\ calls' = <<>>
    /\ result' = NoResult
    /\ raised' = FALSE
    /\ UNCHANGED cfgP
    /\ UNCHANGED <<voiceVars, asstVars, hotVars, obsVars, cmdVars, sideVars>>

\* _save_settings, lines 1481-1490: the entries are written into self.config,
\* the dict every BrainManager built from it holds (line 302), and saved
SaveSettingsConfig ==
    /\ spc = "idle"
    /\ cfgP' \in BOOLEAN
    /\ spc' = "reinit"
    /\ UNCHANGED <<groq_client, gemini_model, query, is_search, apc, calls,
                   result, raised, language, brain>>
    /\ UNCHANGED <<voiceVars, asstVars, hotVars, obsVars, cmdVars, loopVars,
                   muteVars>>

\* _save_settings, lines 1493-1494: a new BrainManager is built from the
\* config and assistant.brain is set to it; the old object is not touched
SaveSettingsReinit ==
    /\ spc = "reinit"
    /\ \E gkey \in BOOLEAN, gok \in BOOLEAN, mkey \in BOOLEAN, mok \in BOOLEAN :
         brain' = [groq_client |-> (gkey /\ gok), gemini_model |-> (mkey /\ mok)]
    /\ spc' = "idle"
    /\ UNCHANGED brainVars
    /\ UNCHANGED <<voiceVars, asstVars, hotVars, obsVars, cmdVars, loopVars,
                   muteVars>>

NextSave ==
    \/ AssistantAsk
    \/ AskPerplexityFirst
    \/ AskGroq
    \/ AskGemini
    \/ AskPerplexityLast
    \/ SaveSettingsConfig
    \/ SaveSettingsReinit

SpecSave == InitRouter /\ [][NextSave]_vars

(***************************************************************************)
(* Claims about the assistant's threads (Spec)                             *)
(***************************************************************************)

\* C1: in no reachable state is a recognizer.listen capture in progress
\* while VoiceEngine.is_speaking is true.
C1_NoCaptureWhileSpeaking == ~(lpc = "capturing" /\ is_speaking)

\* C2: at the step where the capture begins (the call of recognizer.listen),
\* is_speaking and is_muted are both false.
C2_CaptureStartsUnsuspended ==
    [][LoopStartCapture => (~is_speaking /\ ~is_muted)]_vars

\* C3: every speak() call makes exactly one false->true transition of
\* is_speaking (its write of line 599 finds the flag false) and exactly one
\* true->false transition is made for it (its write of line 608 finds the
\* flag true, or else a stop() cleared the true flag while it was in flight,
\* and not both).
C3_OneTransitionEachWay ==
    [][\A r \in BagToSet(workers) :
         /\ WorkerBeginOf(r) => ~is_speaking
         /\ WorkerFinallyOf(r) => (is_speaking # r.cleared)]_vars

\* C4: whenever a speech worker is producing audio, is_speaking is true.
C4_SpeakingWhilePlaying ==
    \A r \in BagToSet(workers) : Playing(r) => is_speaking

\* the speech workers between their line 599 and their line 608
InFlightCount ==
    LET S == {r \in BagToSet(workers) : InFlight(r)}
        Sum[T \in SUBSET S] ==
            IF T = {} THEN 0
            ELSE LET x == CHOOSE y \in T : TRUE
                 IN CopiesIn(x, workers) + Sum[T \ {x}]
    IN Sum[S]

\* C5: at most one speech utterance is in flight at any time.
C5_OneUtteranceInFlight == InFlightCount <= 1

\* C6: after stop() has returned, and until the next speak() call, is_speaking
\* is false.
C6_StaysClearAfterStop == stopClean => ~is_speaking

\* C7: a stop() called with no speech in flight raises nothing and is_speaking
\* is false before, during and after it; a second such call in a row leaves
\* <<is_speaking, _interrupt>> as the first left it.
C7_IdleStopIsNoOp == (hIdle => (~is_speaking /\ ~hEscaped)) /\ hSame

\* two idle stop() calls in a row have returned
C7_Witness == hIdle /\ hRow # <<>> /\ hRow[1] = 2 /\ hpc = "tog_read"

\* C8: the callback of a speech that stop() cut is not run.
C8_CancelledCallbackSkipped ==
    [][\A r \in BagToSet(workers) : WorkerCallbackOf(r) => ~r.cut]_vars

\* a launch between its line 782 (is_muted = True) and the is_muted = False of
\* its callback (line 788): the execute_command thread is past the mute, or
\* the worker of its confirmation has not yet run the callback
LaunchInProgress ==
    \/ \E t \in BagToSet(dispatches) : t.kind = "launch" /\ t.pc = "act"
    \/ \E r \in BagToSet(workers) : r.cb = "unmute"

\* C21: a launch sets is_muted to true before the launch action and before
\* the confirmation speak(); the launch logic sets it back to false only in
\* the callback, after the worker's finally cleared is_speaking; and between
\* the two the coordinator starts no capture.
C21_LaunchSuppressesCapture ==
    [][/\ LaunchMute => is_muted'
       /\ LaunchSpeak => \E t \in BagToSet(dispatches) :
                            t.kind = "launch" /\ t.pc = "act"
       /\ \A r \in BagToSet(workers) : WorkerCallbackOf(r) => r.pc = "cb"
       /\ LoopStartCapture => ~LaunchInProgress]_vars

\* the loop is in the spin-wait of line 1138
Suspended == lpc \in {"chk_s", "chk_m"}

\* C23: while is_listening is true, a loop suspended at line 1138 whose two
\* flags are false and stay false eventually starts a capture; and every
\* iteration goes through both reads of line 1138 before it captures.
C23_SuspendedLoopResumes ==
    /\ []((Suspended /\ [](is_listening /\ ~is_speaking /\ ~is_muted))
            => <>(lpc = "capturing"))
    /\ [][/\ (lpc = "outer" /\ lpc' # "outer") => (is_listening /\ lpc' = "chk_s")
          /\ (lpc # "chk_m" /\ lpc' = "chk_m") => (lpc = "chk_s" /\ ~is_speaking)
          /\ (lpc # "pre" /\ lpc' = "pre") => (lpc = "chk_m" /\ ~is_muted)
          /\ (lpc # "capturing" /\ lpc' = "capturing") => lpc = "pre"]_vars

\* the loop waits at line 1138 on a speech it saw, and both flags are now
\* false
C23_Witness ==
    /\ is_listening /\ lpc = "chk_s" /\ seenSpeaking
    /\ ~is_speaking /\ ~is_muted

\* C30: is_speaking is written only by the speech worker (lines 599, 608)
\* and by VoiceEngine.stop (line 586): no step of the loop, of
\* execute_command, of _launch_app, of BrainManager or of toggle_mute changes
\* it.
C30_OnlyVoiceEngineWritesSpeaking ==
    [][is_speaking' # is_speaking
         => (WorkerBegin \/ WorkerFinally \/ StopClear)]_vars

\* the loop, a launch and toggle_mute have all acted while a speech plays
C30_Witness ==
    /\ is_speaking /\ is_muted
    /\ lpc = "post_m"
    /\ hpc = "tog_write"
    /\ \E t \in BagToSet(dispatches) : t.kind = "launch" /\ t.pc = "act"

(***************************************************************************)
(* Claims about BrainManager.ask (SpecBrain)                               *)
(***************************************************************************)

\* C9: ask() never raises to its caller, and what it returns is the answer of
\* a backend it called or the fixed offline message, whichever backends are
\* configured and whatever each call does.
C9_AskNeverRaises ==
    /\ ~raised
    /\ apc = "done" =>
         \/ result = Offline
         \/ \E i \in DOMAIN calls :
              /\ calls[i][2] # "raise"
              /\ result = Answer(calls[i][1], calls[i][2])

\* every backend called raised and ask() returned the offline message
C9_Witness ==
    /\ apc = "done"
    /\ result = Offline
    /\ Len(calls) = 4
    /\ \A i \in DOMAIN calls : calls[i][2] = "raise"

\* the order of the cascade for a query
Cascade(s) ==
    IF s THEN <<"perplexity", "groq", "gemini", "perplexity">>
    ELSE <<"groq", "gemini", "perplexity">>
\* the backends that can be called at all
Usable(b) ==
    CASE b = "perplexity" -> cfgP
      [] b = "groq" -> groq_client
      [] b = "gemini" -> gemini_model
UsableCascade(s) == SelectSeq(Cascade(s), Usable)
\* a call that gave ask() an answer to return: any content from Groq or
\* Gemini, a non-empty content from Perplexity
Succeeded(c) == IF c[1] = "perplexity" THEN c[2] = "text" ELSE c[2] # "raise"

\* C10: the backends ask() calls are, in order, a prefix of: Perplexity if the
\* query is search-intent, Groq, Gemini, Perplexity (those that are usable);
\* every call but the last failed; ask() returns the answer of the last call
\* if it succeeded and the offline message only after the whole cascade
\* failed.
C10_CascadeOrder ==
    LET ord == UsableCascade(IsSearch(query)) IN
    /\ Len(calls) <= Len(ord)
    /\ \A i \in DOMAIN calls : calls[i][1] = ord[i]
    /\ \A i \in DOMAIN calls : i < Len(calls) => ~Succeeded(calls[i])
    /\ apc = "done" =>
         IF calls # <<>> /\ Succeeded(calls[Len(calls)])
         THEN result = Answer(calls[Len(calls)][1], calls[Len(calls)][2])
         ELSE Len(calls) = Len(ord) /\ result = Offline
    /\ apc # "done" => \A i \in DOMAIN calls : ~Succeeded(calls[i])

\* a search query: Perplexity was tried first and failed, Groq answered and
\* nothing was called after it although Gemini is usable
C10_Witness ==
    /\ apc = "done"
    /\ gemini_model
    /\ calls = << <<"perplexity", "raise">>, <<"groq", "text">> >>
    /\ result = Answer("groq", "text")

\* C11: within one ask() no backend is called more than once.
C11_NoBackendCalledTwice ==
    \A i \in DOMAIN calls : \A j \in DOMAIN calls :
        calls[i][1] = calls[j][1] => i = j

\* the backends ask() can call
UsableSet == {b \in Backends : Usable(b)}

\* C12: with exactly one usable backend, whose every call answers with text,
\* ask() calls it once and returns its answer, search-intent or not.
C12_SoleBackendAnswers ==
    (/\ apc = "done"
     /\ Cardinality(UsableSet) = 1
     /\ \A i \in DOMAIN calls : calls[i][2] = "text")
    => \E b \in UsableSet :
         /\ calls = << <<b, "text">> >>
         /\ result = Answer(b, "text")

\* a search-intent query answered by Gemini, the only usable backend
C12_Witness ==
    /\ apc = "done"
    /\ IsSearch(query)
    /\ UsableSet = {"gemini"}
    /\ result = Answer("gemini", "text")

\* the language the literal of line 399 is written in
OfflineLanguage == "English"

\* C13: when every backend is unusable or fails, ask() raises nothing and
\* returns the offline message, in the language passed as the argument.
C13_OfflineInRequestedLanguage ==
    (/\ apc = "done"
     /\ \A i \in DOMAIN calls : ~Succeeded(calls[i]))
    => /\ ~raised
       /\ result = Offline
       /\ OfflineLanguage = language

(***************************************************************************)
(* Claims about execute_command (SpecDispatch)                             *)
(***************************************************************************)

\* the sentences that hold a wake word, case-insensitively
WakeOf == [t \in Texts |-> HasWake(LowerStr(t))]

\* C14: a text with no wake word in it (case-insensitively) is dropped: the
\* call ends at once with no collaborator call, no ask(), no speak(), no
\* timer started, and is_muted and is_speaking as they were.
C14_NoWakeNoEffect ==
    [][/\ (cpc' # "idle" /\ ~WakeOf[text'])
           => (cpc' = "done" /\ trace' = <<>>)
       /\ (CmdCall /\ ~WakeOf[text'])
           => UNCHANGED <<is_muted, is_speaking, workers, timers, scheduled,
                          calls>>]_vars

\* "what time is it", with a rule's keyword and no wake word, was dropped
C14_Witness == text = "what time is it" /\ cpc = "done" /\ trace = <<>>

\* the categories in their order of priority; the last two are what the code
\* has after them: the "stop listening" command and the inference fallback
CategoryOrder ==
    << "power", "media", "lighting", "launch", "timedate", "calendar",
       "weather", "timers", "utility", "video", "listening", "inference" >>
CategoryOfRule(r) ==
    CASE r \in PowerRules -> "power"
      [] r \in MediaRules -> "media"
      [] r \in LightRules -> "lighting"
      [] r = "launch" -> "launch"
      [] r \in {"time", "date"} -> "timedate"
      [] r = "calendar" -> "calendar"
      [] r = "weather" -> "weather"
      [] r = "timer" -> "timers"
      [] r \in {"clip", "screenshot"} -> "utility"
      [] r = "youtube" -> "video"
      [] r = "stop_listening" -> "listening"
      [] r = "ai" -> "inference"
\* a text (lowered) satisfies the predicate of a category
CategoryMatches(c, tl) ==
    \E n \in DOMAIN RuleOrder :
        CategoryOfRule(RuleOrder[n]) = c /\ Cond(RuleOrder[n], tl)
\* the highest-priority category a text matches
Highest(tl) ==
    LET n == CHOOSE m \in DOMAIN CategoryOrder :
                 /\ CategoryMatches(CategoryOrder[m], tl)
                 /\ \A h \in 1..(m - 1) : ~CategoryMatches(CategoryOrder[h], tl)
    IN CategoryOrder[n]
HighestOf == [t \in Texts |-> Highest(LowerStr(t))]
\* the collaborator calls that belong to a category
CategoryActions(c) ==
    CASE c = "power" -> {"lights.turn_off"}
      [] c = "media" -> {"pyautogui.press " \o MediaKey(r) : r \in MediaRules}
      [] c = "lighting" -> {LightCall(r) : r \in LightRules}
      [] c = "launch" -> {"launch"}
      [] c = "calendar" -> {"calendar.get_schedule"}
      [] c = "weather" -> {"_get_weather"}
      [] c = "utility" -> {"pyautogui.hotkey alt f10", "pyautogui.screenshot"}
      [] c = "video" -> {"pywhatkit.playonyt"}
      [] OTHER -> {}

\* C15: a text with a wake word is handled by the highest-priority category
\* whose predicate it satisfies, whatever lower categories it also satisfies;
\* the call performs collaborator calls of that category only, and calls
\* ask() only when no category matches.
C15_HighestCategoryWins ==
    rule \notin {"none", "reject"} =>
        /\ CategoryOfRule(rule) = HighestOf[text]
        /\ \A i \in DOMAIN trace :
             /\ trace[i][1] = "ext" => trace[i][2] \in CategoryActions(HighestOf[text])
             /\ trace[i][1] = "ask" => HighestOf[text] = "inference"

\* a text of the media and of the launch category, handled as media
C15_Witness ==
    /\ text = "linny pause and open chrome"
    /\ cpc = "done"
    /\ trace = << Ext("pyautogui.press playpause", TRUE), Spoke("Paused.") >>

\* C16: a text with a wake word, a pause keyword and a play keyword, and no
\* system power command, is handled by the pause rule.
C16_PauseBeforePlay ==
    LET tl == LowerStr(text) IN
    (/\ rule \notin {"none", "reject"}
     /\ Cond("pause", tl) /\ Cond("resume", tl)
     /\ \A r \in PowerRules : ~Cond(r, tl))
    => rule = "pause"

\* C17: a time query that no higher rule takes ends with exactly one event,
\* a speak() of a sentence holding the formatted time: no collaborator call,
\* no ask().
C17_TimeSpokenOnce ==
    (rule = "time" /\ cpc = "done")
    => /\ Len(trace) = 1
       /\ trace[1][1] = "speak"
       /\ \E ts \in ClockTimes : Contains(trace[1][2], ts)

\* "Linny, what time is it" was answered
C17_Witness ==
    /\ text = "Linny, what time is it"
    /\ cpc = "done"
    /\ trace = << Spoke("It is 09:05 AM.") >>

\* the speak() calls of the call so far
Speaks == {i \in DOMAIN trace : trace[i][1] = "speak"}

\* C18: a call that passed the wake word test has issued exactly one speak()
\* when it ends, however it ends.
C18_ExactlyOneSpeak ==
    (rule \notin {"none", "reject"} /\ cpc \in {"done", "died"})
    => Cardinality(Speaks) = 1

\* the apologies of execute_command and the methods it calls
Apologies ==
    { "I couldn't set the brightness.", "I couldn't change the color to <color>.",
      "Couldn't find <app>.", "Could not access calendar.",
      "Could not get weather.", "I couldn't take the screenshot.",
      "YouTube failed.", "Timer failed.", "I couldn't understand the duration." }

\* C19: a call whose collaborator action failed ends having spoken an
\* apology, and nothing but apologies.
C19_FailureSpokenAsApology ==
    (/\ cpc \in {"done", "died"}
     /\ \E i \in DOMAIN trace : trace[i][1] = "ext" /\ ~trace[i][3])
    => /\ Speaks # {}
       /\ \A i \in Speaks : trace[i][2] \in Apologies

\* C20: an OS action of the power commands happens only after the
\* confirmation was spoken and, after that, a delayed task was scheduled for
\* it; a power command that has returned has spoken and scheduled.
C20_ConfirmBeforeOsAction ==
    /\ \A i \in DOMAIN trace :
         trace[i][1] = "os" =>
             \E j \in 1..(i - 1) : \E k \in (j + 1)..(i - 1) :
                 /\ trace[j] = Spoke(PowerPhrase(trace[i][2]))
                 /\ trace[k] = Scheduled(trace[i][2])
    /\ (rule \in PowerRules /\ cpc = "done") =>
         \E j \in DOMAIN trace : \E k \in DOMAIN trace :
             /\ j < k
             /\ trace[j] = Spoke(PowerPhrase(rule))
             /\ trace[k] = Scheduled(rule)

\* the shutdown was confirmed, scheduled and then performed
C20_Witness ==
    /\ rule = "shutdown"
    /\ Len(trace) = 4
    /\ trace[4] = OsDone("shutdown")

\* C35: a timer command with a number starts one timer thread and then
\* speaks one confirmation, and the completion of that timer is spoken after
\* the confirmation call (while the call is between the two and no other
\* timer is sleeping, no timer ends); a timer command without a number speaks
\* the apology and starts no timer.
C35_TimerConfirmedThenDone ==
    [][/\ (cpc = "run" /\ rule = "timer" /\ cpc' # "run")
            => IF HasDigit(LowerStr(text))
               THEN /\ timers' = timers + 1
                    /\ cpc' = "timer_set"
               ELSE /\ timers' = timers
                    /\ cpc' = "done"
                    /\ trace' = << Spoke("I couldn't understand the duration.") >>
       /\ (cpc = "timer_set" /\ cpc' # "timer_set")
            => /\ trace' = << Spoke("Timer set for <n> minutes.") >>
               /\ BagCardinality(workers') = BagCardinality(workers) + 1
               /\ timers' = timers
       /\ (cpc = "timer_set" /\ timers = 1) => timers' >= 1]_vars

(***************************************************************************)
(* Claims about the listening threads (SpecLoop)                           *)
(***************************************************************************)

\* C22: no exception of the capture, of the recognition (its second attempt
\* included) or of the thread start ends _listen_loop: whatever the outcome
\* of a step, the thread that took it is still there afterwards (at the loop
\* test, after an exception), except for a thread at the loop test that
\* finds is_listening false.
C22_LoopSurvivesErrors ==
    [][BagCardinality(loops') < BagCardinality(loops)
         => /\ ~is_listening
            /\ \E l \in BagToSet(loops) :
                 l.pc = "outer" /\ loops' = BagRemove(loops, l)]_vars

\* a thread is back at the loop test after the exception that only the
\* handler of line 1208 catches, and the apology of line 1211 is on its way
C22_Witness ==
    /\ is_listening
    /\ BackAtOuter(<<"recognize", "unknown", "other">>) \in BagToSet(loops)
    /\ workers # EmptyBag


\* C24: an audio buffer whose capture overlapped a time in which is_speaking
\* or is_muted was true is never dispatched to execute_command, also when the
\* speech or the mute began and ended inside the capture.
C24_OverlappedAudioDiscarded ==
    [][\A l \in BagToSet(loops) :
         \A o1 \in RecOutcomes, o2 \in RecOutcomes \cup {"none"} :
           (ListenRecognize(l, o1, o2) /\ Spawned(o1, o2)) => ~l.heard]_vars

\* C25: the loop never waits for an execute_command thread: at every
\* position a loop thread has a step to take, whatever the execute_command
\* threads it started are doing, so that it goes on to its next iteration and
\* to a new capture while they run.
C25_LoopNeverWaitsForDispatch ==
    \A l \in BagToSet(loops) : ENABLED ListenStep(l)

\* a capture is in progress while an execute_command thread started by an
\* earlier iteration has not yet done anything
C25_Witness ==
    /\ \E l \in BagToSet(loops) : l.pc = "capturing"
    /\ \E t \in BagToSet(dispatches) : t.pc = "begin"
    /\ ~is_speaking /\ ~is_muted

\* the input errors that are to be retried without a word: a capture
\* timeout, unrecognised speech, a recognition-service error
TransientCapture == {"timeout", "unknown", "request"}
TransientAttempts(o1, o2) ==
    \/ o1 = "request"
    \/ o1 = "unknown" /\ o2 \in {"unknown", "request"}

\* C26: on a capture timeout, on unrecognised speech and on a
\* recognition-service error, in the first attempt or in the second, the loop
\* calls no speak(), starts no execute_command thread and goes on to its next
\* iteration.
C26_TransientErrorsSilent ==
    [][\A l \in BagToSet(loops) :
         /\ \A o \in TransientCapture :
              ListenCaptureEnd(l, o)
                => /\ UNCHANGED <<workers, dispatches>>
                   /\ BackAtOuter(<<"listen", o>>) \in BagToSet(loops')
         /\ \A o1 \in RecOutcomes, o2 \in RecOutcomes \cup {"none"} :
              (ListenRecognize(l, o1, o2) /\ TransientAttempts(o1, o2))
                => /\ UNCHANGED <<workers, dispatches>>
                   /\ BackAtOuter(<<"recognize", o1, o2>>) \in BagToSet(loops')
      ]_vars

\* C27: over any sequence of start_listening and stop_listening calls, at
\* most one recognizer.listen call is in progress at any time.
C27_OneCaptureAtATime == Capturing <= 1

\* the iteration of a thread that was at the recognition ended in this step
\* as e.last says
RecognitionEnded(e) ==
    /\ CopiesIn(e, loops') > CopiesIn(e, loops)
    /\ e.pc = "outer"
    /\ Len(e.last) = 3
    /\ e.last[1] = "recognize"

\* recognize_google returned a text, in the first attempt or in the second
Recognised(o1, o2) ==
    \/ o1 \in {"text", "spawn_raise"}
    \/ o1 = "unknown" /\ o2 \in {"text", "spawn_raise"}

\* C31: a captured buffer that was not discarded starts at most one
\* execute_command thread, the 'fil-PH' attempt is made only after the 'en-US'
\* attempt raised UnknownValueError, and exactly one thread is started when
\* an attempt returned a text and the Thread start that follows it did not
\* raise.
C31_DispatchedOnceWhenStarted ==
    [][\A e \in BagToSet(loops') :
         RecognitionEnded(e)
           => /\ e.last[3] # "none" => e.last[2] = "unknown"
              /\ BagCardinality(dispatches') - BagCardinality(dispatches)
                   = IF \/ e.last[2] = "text"
                        \/ e.last[2] = "unknown" /\ e.last[3] = "text"
                     THEN 1 ELSE 0]_vars

\* the second attempt started the thread after the first raised
\* UnknownValueError, and the thread has not yet done anything
C31_Witness ==
    /\ BackAtOuter(<<"recognize", "unknown", "text">>) \in BagToSet(loops)
    /\ \E t \in BagToSet(dispatches) : t.pc = "begin"

\* C31 as worded: exactly one thread is started whenever recognize_google
\* returned a text.
C31_DispatchedOnceWhenRecognised ==
    [][\A e \in BagToSet(loops') :
         (RecognitionEnded(e) /\ Recognised(e.last[2], e.last[3]))
           => BagCardinality(dispatches')
                = BagCardinality(dispatches) + 1]_vars

\* the thread l, at the test of line 1160, finds the flag it reads true
FindsFlagSet(l) ==
    \/ l.pc = "post_s" /\ is_speaking
    \/ l.pc = "post_m" /\ is_muted

\* C34: a buffer that the test of line 1160 discards never reaches
\* recognize_google: the thread that finds is_speaking or is_muted true
\* there is next at the loop test, its iteration ended as a discard, no
\* thread has come to the recognition and no execute_command thread has been
\* started.
C34_DiscardBeforeRecognition ==
    [][\A l \in BagToSet(loops) :
         (FindsFlagSet(l) /\ CopiesIn(l, loops') < CopiesIn(l, loops))
           => /\ CopiesIn(BackAtOuter(<<"discard">>), loops')
                   > CopiesIn(BackAtOuter(<<"discard">>), loops)
              /\ \A e \in BagToSet(loops') :
                   e.pc = "recog" => CopiesIn(e, loops') <= CopiesIn(e, loops)
              /\ UNCHANGED dispatches]_vars

\* a buffer captured while the assistant was muted has just been discarded,
\* and the assistant is still muted
C34_Witness ==
    /\ is_muted
    /\ BackAtOuter(<<"discard">>) \in BagToSet(loops)

\* C40: a call of start_listening that finds is_listening true changes
\* nothing; one that finds it false sets is_listening and starts one loop
\* thread, without a word, when one of its 3 attempts opens the source, and
\* when all 3 fail it leaves is_listening false, starts no loop thread and
\* speaks the failure message.
C40_StartOnlyWithSource ==
    [][\A failed \in 0..3 :
         StartListeningOf(failed)
           => IF is_listening
              THEN UNCHANGED <<is_listening, loops, workers>>
              ELSE IF failed \in {0, 1, 2}
              THEN /\ is_listening'
                   /\ loops' = BagAdd(loops, NewLoop)
                   /\ UNCHANGED workers
              ELSE /\ ~is_listening'
                   /\ UNCHANGED loops
                   /\ BagCardinality(workers')
                        = BagCardinality(workers) + 1]_vars

\* a call that failed has spoken its message, and a later call has started
\* the only loop thread, which has not yet taken a step
C40_Witness ==
    /\ is_listening
    /\ loops = SetToBag({NewLoop})
    /\ workers # EmptyBag
    /\ dispatches = EmptyBag

(***************************************************************************)
(* Claims about the speech workers, scheduled fairly (SpecVoice)           *)
(***************************************************************************)

\* C32: is_speaking, once true, is eventually false again, whether the
\* engine played the sentence, raised or was stopped; and a worker comes to
\* its callback only by the step that clears is_speaking.
C32_SpeakingClearedThenCallback ==
    /\ [](is_speaking => <>(~is_speaking))
    /\ [][\A r \in BagToSet(workers') :
            (r.pc = "cb" /\ CopiesIn(r, workers') > CopiesIn(r, workers))
              => ~is_speaking']_vars

\* a worker whose playback the hotkey cut is about to run its callback, and
\* is_speaking is false
C32_Witness ==
    /\ ~is_speaking
    /\ \E r \in BagToSet(workers) : r.pc = "cb" /\ r.cut

C33_DeadSourceReopened ==
    []((stream = "dead" /\ [](is_listening /\ ~is_muted))
         => <>(stream = "open"))

\* C37: once stop_listening has been called, with start_listening not called
\* again and the Mute button left alone, every _listen_loop thread
\* eventually ends, wherever it was.
C37_LoopEndsAfterStop ==
    []([](~is_listening /\ tog["gui"] = "idle") => <>(loops = EmptyBag))

(***************************************************************************)
(* Claims about toggle_mute (SpecMute)                                     *)
(***************************************************************************)

\* C29: when all the toggle_mute calls made by the concurrent threads have
\* returned, is_muted is its initial value (false, line 684) negated once per
\* call: no toggle is lost.
C29_NoToggleLost ==
    (\A c \in Callers : tog[c] = "idle") => (is_muted = flips)

(***************************************************************************)
(* Claims about the user's mute and the launches (SpecUser)                *)
(***************************************************************************)

\* C36: while the latest mute request of the user stands (the latest
\* toggle_mute call returned muted), is_muted turns false only by a
\* toggle_mute call: never by the callback of a launch.
C36_UserMuteKept ==
    [][(userMuted /\ is_muted /\ ~is_muted') => ~userMuted']_vars

\* C38: when the toggle_mute call of the "stop listening" command (line
\* 1110) returns, is_muted is true, whatever the Mute button and the
\* launches did before and during the call.
C38_StopListeningMutes ==
    [][ToggleMuteWrite("dispatcher") => is_muted']_vars

(***************************************************************************)
(* Claims about _save_settings (SpecSave)                                  *)
(***************************************************************************)

\* C28: an ask() in flight while _save_settings runs sees one provider
\* configuration from its start to its end: whether Perplexity has a key,
\* whether the Groq client and the Gemini model are set, does not change for
\* it.
C28_AskSeesOneConfiguration ==
    [][apc \notin {"idle", "done"}
         => UNCHANGED <<cfgP, groq_client, gemini_model>>]_vars

=============================================================================
